---- MODULE Spec2Model ----
(***************************************************************************)
(* Verification model of the aleo-pool-server core:                        *)
(*   - the PPLNS share window (src/src/accounting.rs, PPLNS),               *)
(*   - the Accounting event consumer (src/src/accounting.rs, Accounting),   *)
(*   - the state file written by PPLNS::save and read by PPLNS::load,       *)
(*   - Accounting::current_round and its cache (src/cache/src/lib.rs),      *)
(*   - the per-peer Connection task (src/src/connection.rs).                *)
(*   - the payout loop (src/src/accounting.rs, payout_loop),                *)
(*   - the Stratum codec (src/stratum/src/codec.rs),                        *)
(*   - the HTTP API (src/src/api.rs),                                       *)
(*   - the server hub: prover registry, NonceSeen and share validation,     *)
(*   - PPLNS::save step by step, in the Exit arm and the periodic task.     *)
(*                                                                         *)
(* u64 arithmetic is modelled on the range 0..MaxU64 with modulus MaxU64+1. *)
(* The build profile decides what an arithmetic overflow does: with        *)
(* overflow checks (debug profile) it panics, without (release profile) it *)
(* wraps.  overflow_checks is fixed at start-up and both are explored.     *)
(***************************************************************************)
EXTENDS Integers, Sequences, FiniteSets, TLC

VARIABLES
    \* ---- PPLNS / Accounting ----
    pplns,            \* the PPLNS struct: [queue, current_n, n]
    overflow_checks,  \* build profile: TRUE = arithmetic overflow panics
    consumer,         \* the consumer task: "running", "panicked", "finished"
    last_op,          \* the last PPLNS operation executed and what it evicted
    channel,          \* the mpsc channel of AccountingMessage, head first
    rx_closed,        \* receiver.close() has been called
    accepted,         \* every event the channel has accepted, in order
    handled,          \* number of events the consumer has taken off the channel
    disk,             \* the state file: [status, state, bytes]
    exit_lock,        \* Accounting.exit_lock
    final_save,       \* the Exit handler's save: [done, applied, ok]
    solutions,        \* one record per handled NewSolution
    waiter,           \* wait_for_exit: "polling" or "returned"
    saver,            \* the periodic save task: "sleeping", "aborted", "not_started"
    round_pc,         \* a current_round call: "idle", "cloned", "panicked"
    round_calls,      \* current_round calls begun
    round_snapshot,   \* the PPLNS clone a current_round call holds
    round_cache,      \* Accounting.round_cache: [present, instant, value]
    round_reply,      \* the JSON current_round returned last
    \* ---- Connection ----
    pc,               \* position of Connection::run
    to_peer,          \* frames written to the peer, in order
    to_hub,           \* ServerMessages sent on server_sender, in order
    outbound,         \* the hub -> connection channel, head first
    hub_holds_sender, \* "none" (not handed over), "held", "dropped"
    now,              \* the clock, in seconds
    phase_start,      \* when the current timeout(...) await began
    last_received,    \* conn.last_received; -1 is None
    received,         \* every result framed.next() has yielded, in order
    \* ---- Payout loop ----
    payout_pc,        \* position of payout_loop: "fetch", "check", "pay", "sleep"
    payout_batch,     \* what get_should_pay_solutions returned this iteration
    payout_pos,       \* index in payout_batch of the solution being processed
    payout_log,       \* the calls this iteration has made, in order
    payout_wake,      \* when the current sleep(PAY_INTERVAL) ends
    \* ---- Stratum codec ----
    codec_op,         \* the last codec operation: "none", "round_trip", "decode", "wire"
    codec_in,         \* its input: a StratumMessage or a frame
    codec_out,        \* its output: what decode yielded
    \* ---- HTTP API ----
    api_request,      \* the request last handled
    api_reply,        \* the reply to it: [done, status, body]
    \* ---- Server hub ----
    registry,         \* the prover registry: peer -> address, "" when absent
    nonce_seen,       \* the NonceSeen set
    hub_epoch,        \* the epoch of the current job
    hub_handled,      \* number of ServerMessages of to_hub the hub has taken
    hub_tasks,        \* one record per ProverSubmit taken, in order
    hub_emitted,      \* the AccountingMessages the hub has emitted, in order
    \* ---- PPLNS::save in progress ----
    saving            \* the tasks inside PPLNS::save: "exit", "periodic"

round_vars == <<round_pc, round_calls, round_snapshot, round_cache, round_reply>>
acct_vars == <<pplns, overflow_checks, consumer, last_op, channel, rx_closed,
               accepted, handled, disk, exit_lock, final_save, solutions, waiter,
               saver, round_vars>>
conn_vars == <<pc, to_peer, to_hub, outbound, hub_holds_sender, now,
               phase_start, last_received, received>>
payout_vars == <<payout_pc, payout_batch, payout_pos, payout_log, payout_wake>>
codec_vars == <<codec_op, codec_in, codec_out>>
api_vars == <<api_request, api_reply>>
hub_vars == <<registry, nonce_seen, hub_epoch, hub_handled, hub_tasks, hub_emitted>>
save_vars == <<saving>>
ext_vars == <<payout_vars, codec_vars, api_vars, hub_vars, save_vars>>
vars == <<acct_vars, conn_vars, ext_vars>>

(***************************************************************************)
(* Bounds of the model.                                                    *)
(***************************************************************************)
MaxU64 == 10       \* stands for u64::MAX
MaxValue == 5      \* the small u64 values drawn, next to u64::MAX itself
MaxQueue == 3      \* add_share is explored while the queue is shorter

Modulus == MaxU64 + 1
\* The u64 values the operations are explored with.
U64 == (0 .. MaxValue) \cup {MaxU64}
Owners == {"A", "B"}

(***************************************************************************)
(* Share and PPLNS                                                         *)
(***************************************************************************)
Share(value, owner) == [value |-> value, owner |-> owner]

EmptyPPLNS == [queue |-> <<>>, current_n |-> 0, n |-> 0]

RECURSIVE SumValues(_)
SumValues(q) == IF q = <<>> THEN 0 ELSE Head(q).value + SumValues(Tail(q))

\* Outcome of a PPLNS method: the state it leaves, whether it panicked, and
\* how many shares it popped from the head.
Outcome(q, cur, n, panicked, popped) ==
    [state |-> [queue |-> q, current_n |-> cur, n |-> n],
     panicked |-> panicked, popped |-> popped]

\* A plausible slip: evict a single share instead of looping.
EvictOnce(q, cur, bound, n, checks, popped) ==
    IF cur > bound /\ q # <<>>
    THEN Outcome(Tail(q), (cur - Head(q).value) % Modulus, n, FALSE, popped + 1)
    ELSE Outcome(q, cur, n, FALSE, popped)

\* while *current_n > bound { let share = queue.pop_front().unwrap();
\*                            *current_n -= share.value; }
RECURSIVE EvictWhileOver(_, _, _, _, _, _)
EvictWhileOver(q, cur, bound, n, checks, popped) ==
    IF cur > bound
    THEN IF q = <<>>
         THEN Outcome(q, cur, n, TRUE, popped)            \* unwrap() on None
         ELSE LET v == Head(q).value IN
              IF v > cur
              THEN IF checks
                   THEN Outcome(Tail(q), cur, n, TRUE, popped + 1)   \* subtract overflow
                   ELSE EvictWhileOver(Tail(q), (cur - v) % Modulus, bound, n,
                                       checks, popped + 1)
              ELSE EvictWhileOver(Tail(q), cur - v, bound, n, checks, popped + 1)
    ELSE Outcome(q, cur, n, FALSE, popped)

\* A plausible slip: the new share goes to the head of the queue.
add_share_push_front(s, share, checks) ==
    LET q   == <<share>> \o s.queue
        sum == s.current_n + share.value
    IN  IF sum > MaxU64 /\ checks
        THEN Outcome(q, s.current_n, s.n, TRUE, 0)
        ELSE EvictWhileOver(q, sum % Modulus, s.n, s.n, checks, 0)

\* PPLNS::add_share
add_share(s, share, checks) ==
    LET q   == Append(s.queue, share)
        sum == s.current_n + share.value
    IN  IF sum > MaxU64 /\ checks
        THEN Outcome(q, s.current_n, s.n, TRUE, 0)        \* add overflow panics
        ELSE EvictWhileOver(q, sum % Modulus, s.n, s.n, checks, 0)

\* A plausible slip: `*self_n = n` sits inside the `if n < *self_n` block.
set_n_shrink_only(s, new_n, checks) ==
    IF new_n < s.n
    THEN LET r == EvictWhileOver(s.queue, s.current_n, new_n, s.n, checks, 0) IN
         IF r.panicked THEN r ELSE [r EXCEPT !.state.n = new_n]
    ELSE Outcome(s.queue, s.current_n, s.n, FALSE, 0)

\* PPLNS::set_n
set_n(s, new_n, checks) ==
    LET r == IF new_n < s.n
             THEN EvictWhileOver(s.queue, s.current_n, new_n, s.n, checks, 0)
             ELSE Outcome(s.queue, s.current_n, s.n, FALSE, 0)
    IN  IF r.panicked THEN r
        ELSE [r EXCEPT !.state.n = new_n]

(***************************************************************************)
(* Initial state: PPLNS::load on a missing state file, Accounting::init,    *)
(* and a freshly accepted connection entering Connection::run.              *)
(***************************************************************************)
NoOp == [op |-> "none", popped |-> 0, panicked |-> FALSE]

\* The state file: absent, holding a saved PPLNS, or left undecodable.
\* bytes is what the file holds; state is the PPLNS a successful save wrote.
MissingFile == [status |-> "missing", state |-> EmptyPPLNS, bytes |-> <<>>]
NoFinalSave == [done |-> FALSE, applied |-> 0, ok |-> FALSE, state |-> EmptyPPLNS]

\* (u32, HashMap<String, u64>) of an empty queue.
NoShares == [num_provers |-> 0, shares |-> << >>]
\* Cache::new: no entry yet.
EmptyCache == [present |-> FALSE, instant |-> 0, value |-> NoShares]
NoSnapshot == [queue |-> <<>>, current_n |-> 0, n |-> 0]
NoReply == [served |-> FALSE, n |-> 0, current_n |-> 0, provers |-> 0,
            shares |-> << >>, snapshot |-> NoSnapshot]

InitAccounting ==
    /\ pplns = EmptyPPLNS
    /\ overflow_checks \in BOOLEAN
    /\ consumer = "running"
    /\ last_op = NoOp
    /\ channel = <<>>
    /\ rx_closed = FALSE
    /\ accepted = <<>>
    /\ handled = 0
    /\ disk = MissingFile
    /\ exit_lock = FALSE
    /\ final_save = NoFinalSave
    /\ solutions = <<>>
    /\ waiter = "polling"
    /\ saver = "sleeping"
    /\ round_pc = "idle"
    /\ round_calls = 0
    /\ round_snapshot = NoSnapshot
    /\ round_cache = EmptyCache
    /\ round_reply = NoReply

InitConnection ==
    /\ pc = "handshake"
    /\ to_peer = <<>>
    /\ to_hub = <<>>
    /\ outbound = <<>>
    /\ hub_holds_sender = "none"
    /\ now = 0
    /\ phase_start = 0
    /\ last_received = -1
    /\ received = <<>>

InitPayout ==
    /\ payout_pc = "fetch"
    /\ payout_batch = <<>>
    /\ payout_pos = 0
    /\ payout_log = <<>>
    /\ payout_wake = 0

InitCodec ==
    /\ codec_op = "none"
    /\ codec_in = <<>>
    /\ codec_out = <<>>

NoRequest == [method |-> "", path |-> <<>>, peer |-> <<0, 0, 0, 0>>]
NoHttpReply == [done |-> FALSE, status |-> 0, body |-> [none |-> TRUE]]

InitApi ==
    /\ api_request = NoRequest
    /\ api_reply = NoHttpReply

\* The peer of the connection, and a peer that never connects.
PeerAddr == "198.51.100.7:40000"
OtherPeer == "203.0.113.9:50000"
HubPeers == {PeerAddr, OtherPeer}

InitHub ==
    /\ registry = [p \in HubPeers |-> ""]
    /\ nonce_seen = {}
    /\ hub_epoch = 1
    /\ hub_handled = 0
    /\ hub_tasks = <<>>
    /\ hub_emitted = <<>>

InitSave == saving = {}

Init ==
    /\ InitAccounting /\ InitConnection /\ InitPayout /\ InitCodec /\ InitApi
    /\ InitHub /\ InitSave

(***************************************************************************)
(* The PPLNS operations on their own: any sequence of add_share / set_n.    *)
(* A panic ends the only task that calls them.                              *)
(***************************************************************************)
ApplyOp(r, name) ==
    /\ pplns' = r.state
    /\ consumer' = IF r.panicked THEN "panicked" ELSE consumer
    /\ last_op' = [op |-> name, popped |-> r.popped, panicked |-> r.panicked]

AddShareOp ==
    /\ consumer = "running"
    /\ Len(pplns.queue) < MaxQueue
    /\ \E v \in U64, o \in Owners :
          ApplyOp(add_share(pplns, Share(v, o), overflow_checks), "add_share")
    /\ UNCHANGED <<overflow_checks, channel, rx_closed, accepted, handled, disk,
                   exit_lock, final_save, solutions, waiter>>
    /\ UNCHANGED <<saver, round_vars>>
    /\ UNCHANGED <<conn_vars, ext_vars>>

SetNOp ==
    /\ consumer = "running"
    /\ \E new_n \in U64 : ApplyOp(set_n(pplns, new_n, overflow_checks), "set_n")
    /\ UNCHANGED <<overflow_checks, channel, rx_closed, accepted, handled, disk,
                   exit_lock, final_save, solutions, waiter>>
    /\ UNCHANGED <<saver, round_vars>>
    /\ UNCHANGED <<conn_vars, ext_vars>>

NextPPLNS == AddShareOp \/ SetNOp

SpecPPLNS == Init /\ [][NextPPLNS]_vars

\* C1: after any sequence of add_share and set_n from the empty state,
\* current_n equals the sum of value over the queued shares.
C1_CurrentNIsQueueSum == pplns.current_n = SumValues(pplns.queue)

\* C2: after every add_share and every set_n, current_n <= n.
C2_CurrentNWithinWindow == pplns.current_n <= pplns.n

\* C2 witness: an add_share that had to evict more than once from the head
\* and left a non-empty queue within the window.
C2_WitnessEvicted ==
    /\ last_op.op = "add_share"
    /\ last_op.popped >= 2
    /\ ~last_op.panicked
    /\ pplns.queue # <<>>
    /\ pplns.current_n <= pplns.n

\* C15: in every reachable PPLNS state with n = 0 the queue is empty, for
\* share values over all of u64, 0 included.
C15_ZeroWindowMeansEmptyQueue == pplns.n = 0 => pplns.queue = <<>>

\* C34: set_n(new_n) with new_n >= n leaves the queue and current_n unchanged
\* and only assigns n = new_n; set_n(new_n) with new_n < n and
\* current_n <= new_n leaves the queue and current_n unchanged as well.
C34_SetNWithoutEviction ==
    \A new_n \in U64 :
        (new_n >= pplns.n \/ pplns.current_n <= new_n) =>
            set_n(pplns, new_n, overflow_checks) =
                Outcome(pplns.queue, pplns.current_n, new_n, FALSE, 0)

\* C34 witness: set_n has set the window to exactly the queue's sum, two
\* shares are queued and none was popped.
C34_WitnessWindowSetToSum ==
    /\ last_op = [op |-> "set_n", popped |-> 0, panicked |-> FALSE]
    /\ Len(pplns.queue) = 2
    /\ pplns.current_n = SumValues(pplns.queue)
    /\ pplns.n = pplns.current_n
    /\ pplns.n > 0

\* C35: add_share of a share whose value exceeds n, and of every share added
\* while n = 0, evicts the whole queue, the new share included: afterwards
\* the queue is empty and current_n = 0.
C35_OversizedShareEmptiesQueue ==
    \A v \in U64, o \in Owners :
        (v > pplns.n \/ pplns.n = 0) =>
            LET r == add_share(pplns, Share(v, o), overflow_checks) IN
            /\ ~r.panicked
            /\ r.state.queue = <<>>
            /\ r.state.current_n = 0

\* C39: in add_share the addition current_n += share.value never leaves the
\* u64 range: in every reachable state, for every share value, the sum does
\* not wrap, so overflow does not break current_n = sum of the queued values.
C39_AdditionStaysInRange ==
    \A v \in U64, o \in Owners :
        /\ pplns.current_n + v <= MaxU64
        /\ LET r == add_share(pplns, Share(v, o), overflow_checks) IN
           /\ ~r.panicked
           /\ pplns.current_n = SumValues(pplns.queue)
                 => r.state.current_n = SumValues(r.state.queue)

(***************************************************************************)
(* Accounting: the event channel, its single consumer, the periodic save    *)
(* task and wait_for_exit.                                                  *)
(***************************************************************************)
ChannelCapacity == 1024   \* channel(1024)
MaxEvents == 4            \* events accepted on the channel in one run

NewShare(address, value) == [type |-> "NewShare", address |-> address, value |-> value, n |-> 0]
SetN(n) == [type |-> "SetN", address |-> "", value |-> 0, n |-> n]
NewSolution == [type |-> "NewSolution", address |-> "", value |-> 0, n |-> 0]
Exit == [type |-> "Exit", address |-> "", value |-> 0, n |-> 0]

\* The events senders submit in this model.
Events == {NewShare("A", 1), NewShare("B", 2), SetN(3), SetN(1), NewSolution, Exit}

\* A plausible slip: take the most recently buffered event first.
RecvNewest(ch) == [event |-> ch[Len(ch)], rest |-> SubSeq(ch, 1, Len(ch) - 1)]

\* receiver.recv(): the oldest buffered event and what stays buffered.
Recv(ch) == [event |-> Head(ch), rest |-> Tail(ch)]

\* The fold of pplns_to_provers_shares over the queue, front to back:
\* `*shares += share.value` for a known owner, an insert for a new one.
RECURSIVE AddressShares(_, _)
AddressShares(q, checks) ==
    IF q = <<>> THEN [panicked |-> FALSE, shares |-> << >>]
    ELSE LET share == q[Len(q)]
             before == AddressShares(SubSeq(q, 1, Len(q) - 1), checks)
             m == before.shares
         IN  IF before.panicked THEN before
             ELSE IF share.owner \in DOMAIN m
             THEN IF m[share.owner] + share.value > MaxU64 /\ checks
                  THEN [panicked |-> TRUE, shares |-> m]      \* add overflow panics
                  ELSE [panicked |-> FALSE,
                        shares |-> [m EXCEPT ![share.owner] = (@ + share.value) % Modulus]]
             ELSE [panicked |-> FALSE,
                   shares |-> [o \in DOMAIN m \cup {share.owner} |->
                                 IF o = share.owner THEN share.value ELSE m[o]]]

\* Accounting::pplns_to_provers_shares
pplns_to_provers_shares(s, checks) ==
    LET r == AddressShares(s.queue, checks) IN
    [panicked |-> r.panicked,
     num_provers |-> Cardinality(DOMAIN r.shares),
     shares |-> r.shares]

(***************************************************************************)
(* The state file.  #[derive(Savefile)] writes the fields in declaration    *)
(* order behind the schema version: a VecDeque as its length and elements,  *)
(* a String as its length and bytes, an Arc<RwLock<u64>> as the u64.        *)
(***************************************************************************)
SAVEFILE_VERSION == 0     \* save_file(db_path, 0, ..) / load_file(db_path, 0)
OwnerBytes == [o \in Owners |-> IF o = "A" THEN 65 ELSE 66]
BytesOwner(b) == CHOOSE o \in Owners : OwnerBytes[o] = b

RECURSIVE EncodeShares(_)
EncodeShares(q) ==
    IF q = <<>> THEN <<>>
    ELSE <<Head(q).value, 1, OwnerBytes[Head(q).owner]>> \o EncodeShares(Tail(q))

\* save_file: what a complete write leaves in the file.
Encode(s) ==
    <<SAVEFILE_VERSION, Len(s.queue)>> \o EncodeShares(s.queue) \o <<s.current_n, s.n>>

RECURSIVE DecodeShares(_, _)
DecodeShares(bytes, count) ==
    IF count = 0 THEN <<>>
    ELSE <<Share(bytes[1], BytesOwner(bytes[3]))>>
         \o DecodeShares(SubSeq(bytes, 4, Len(bytes)), count - 1)

\* Whether bytes hold the version, the queue and both counters in full.
WellFormed(bytes) ==
    /\ Len(bytes) >= 2
    /\ bytes[1] <= SAVEFILE_VERSION
    /\ Len(bytes) >= 2 + 3 * bytes[2] + 2
    /\ \A i \in 1 .. bytes[2] :
          /\ bytes[3 * i + 1] = 1
          /\ \E o \in Owners : OwnerBytes[o] = bytes[3 * i + 2]

\* A plausible slip: the two counters are read in the other order.
DecodeCountersSwapped(bytes) ==
    IF WellFormed(bytes)
    THEN LET count == bytes[2] IN
         [ok |-> TRUE,
          state |-> [queue |-> DecodeShares(SubSeq(bytes, 3, Len(bytes)), count),
                     current_n |-> bytes[2 + 3 * count + 2],
                     n |-> bytes[2 + 3 * count + 1]]]
    ELSE [ok |-> FALSE, state |-> EmptyPPLNS]

\* load_file: the PPLNS the bytes hold, or an error where they end early.
Decode(bytes) ==
    IF WellFormed(bytes)
    THEN LET count == bytes[2] IN
         [ok |-> TRUE,
          state |-> [queue |-> DecodeShares(SubSeq(bytes, 3, Len(bytes)), count),
                     current_n |-> bytes[2 + 3 * count + 1],
                     n |-> bytes[2 + 3 * count + 2]]]
    ELSE [ok |-> FALSE, state |-> EmptyPPLNS]

\* A plausible slip: a file that does not decode is answered with the empty
\* state (unwrap_or_default) instead of a failed start-up.
load_or_default(file) ==
    IF file.status = "missing" THEN [ok |-> TRUE, state |-> EmptyPPLNS]
    ELSE [ok |-> TRUE, state |-> Decode(file.bytes).state]

\* PPLNS::load: the empty state if the file does not exist, else
\* load_file(..).unwrap(); ok = FALSE is the panic of that unwrap.
load(file) ==
    IF file.status = "missing" THEN [ok |-> TRUE, state |-> EmptyPPLNS]
    ELSE Decode(file.bytes)

\* PPLNS::save: the file afterwards.  A failed save_file leaves the old file
\* (it could not be created) or an undecodable one (it was truncated).
Saved(s) == [status |-> "saved", state |-> s, bytes |-> Encode(s)]
\* A write that stopped early: nothing written, or all but the last word.
Truncated(s) ==
    LET bytes == Encode(s) IN
    {[status |-> "corrupt", state |-> EmptyPPLNS, bytes |-> SubSeq(bytes, 1, k)] :
        k \in {0, Len(bytes) - 1}}
SaveOutcomes(s) ==
    {[ok |-> TRUE, file |-> Saved(s)], [ok |-> FALSE, file |-> disk]}
    \cup {[ok |-> FALSE, file |-> f] : f \in Truncated(s)}

\* sender.send(event): accepted while the receiver is open and has room.
Send ==
    /\ ~rx_closed
    /\ Len(channel) < ChannelCapacity
    /\ Len(accepted) < MaxEvents
    /\ \E e \in Events :
          /\ channel' = Append(channel, e)
          /\ accepted' = Append(accepted, e)
    /\ UNCHANGED <<pplns, overflow_checks, consumer, last_op, rx_closed, handled,
                   disk, exit_lock, final_save, solutions, waiter>>
    /\ UNCHANGED <<saver, round_vars>>
    /\ UNCHANGED <<conn_vars, ext_vars>>

Receives(type) ==
    /\ consumer = "running"
    /\ channel # <<>>
    /\ Recv(channel).event.type = type
    /\ channel' = Recv(channel).rest
    /\ handled' = handled + 1

\* NewShare(address, value) => pplns.write().await.add_share(...)
HandleNewShare ==
    /\ Receives("NewShare")
    /\ LET e == Recv(channel).event IN
          ApplyOp(add_share(pplns, Share(e.value, e.address), overflow_checks),
                  "add_share")
    /\ UNCHANGED <<overflow_checks, rx_closed, accepted, disk, exit_lock,
                   final_save, solutions, waiter>>
    /\ UNCHANGED <<saver, round_vars>>
    /\ UNCHANGED <<conn_vars, ext_vars>>

\* SetN(n) => pplns.write().await.set_n(n)
HandleSetN ==
    /\ Receives("SetN")
    /\ ApplyOp(set_n(pplns, Recv(channel).event.n, overflow_checks), "set_n")
    /\ UNCHANGED <<overflow_checks, rx_closed, accepted, disk, exit_lock,
                   final_save, solutions, waiter>>
    /\ UNCHANGED <<saver, round_vars>>
    /\ UNCHANGED <<conn_vars, ext_vars>>

\* NewSolution(commitment) => snapshot, aggregate, database.save_solution;
\* an overflow panic in the aggregation ends the consumer task.
OnNewSolution ==
    LET r == pplns_to_provers_shares(pplns, overflow_checks) IN
          IF r.panicked
          THEN /\ consumer' = "panicked"
               /\ UNCHANGED solutions
          ELSE /\ \E stored \in BOOLEAN :
                     solutions' = Append(solutions,
                                         [queue |-> pplns.queue,
                                          num_provers |-> r.num_provers,
                                          shares |-> r.shares,
                                          stored |-> stored])
               /\ UNCHANGED consumer

HandleNewSolution ==
    /\ Receives("NewSolution")
    /\ OnNewSolution
    /\ UNCHANGED <<pplns, overflow_checks, last_op, rx_closed, accepted,
                   disk, exit_lock, final_save, waiter>>
    /\ UNCHANGED <<saver, round_vars>>
    /\ UNCHANGED <<conn_vars, ext_vars>>

\* Exit => receiver.close(); let _ = pplns.read().await.save();
\*         exit_lock.store(true)
HandleExit ==
    /\ Receives("Exit")
    /\ rx_closed' = TRUE
    /\ \E out \in SaveOutcomes(pplns) :
          /\ disk' = out.file
          /\ final_save' = [done |-> TRUE, applied |-> handled + 1, ok |-> out.ok,
                            state |-> pplns]
    /\ exit_lock' = TRUE
    /\ UNCHANGED <<pplns, overflow_checks, consumer, last_op, accepted, solutions,
                   waiter>>
    /\ UNCHANGED <<saver, round_vars>>
    /\ UNCHANGED <<conn_vars, ext_vars>>

\* while let Some(request) = receiver.recv().await: None once the receiver
\* is closed and drained.
ConsumerFinish ==
    /\ consumer = "running"
    /\ rx_closed
    /\ channel = <<>>
    /\ consumer' = "finished"
    /\ UNCHANGED <<pplns, overflow_checks, last_op, channel, rx_closed, accepted,
                   handled, disk, exit_lock, final_save, solutions, waiter>>
    /\ UNCHANGED <<saver, round_vars>>
    /\ UNCHANGED <<conn_vars, ext_vars>>

\* A plausible slip: the result of save() is unwrapped in the loop.
periodic_save_unwrap(out) == IF out.ok THEN "sleeping" ELSE "aborted"

\* if let Err(e) = pplns.read().await.save() { error!(..) }: the error is
\* logged and the loop goes back to sleep.
periodic_save(out) == "sleeping"

\* loop { sleep(60 s); if let Err(e) = pplns.read().await.save() { error!() } }
PeriodicSave ==
    /\ saver = "sleeping"
    /\ \E out \in SaveOutcomes(pplns) :
          /\ disk' = out.file
          /\ saver' = periodic_save(out)
    /\ UNCHANGED <<pplns, overflow_checks, consumer, last_op, channel, rx_closed,
                   accepted, handled, exit_lock, final_save, solutions, waiter>>
    /\ UNCHANGED round_vars
    /\ UNCHANGED <<conn_vars, ext_vars>>

\* Accounting::wait_for_exit returns once it reads exit_lock = true.
WaitForExitReturns ==
    /\ waiter = "polling"
    /\ exit_lock
    /\ waiter' = "returned"
    /\ UNCHANGED <<pplns, overflow_checks, consumer, last_op, channel, rx_closed,
                   accepted, handled, disk, exit_lock, final_save, solutions>>
    /\ UNCHANGED <<saver, round_vars>>
    /\ UNCHANGED <<conn_vars, ext_vars>>

NextAccounting ==
    \/ Send
    \/ HandleNewShare
    \/ HandleSetN
    \/ HandleNewSolution
    \/ HandleExit
    \/ ConsumerFinish
    \/ PeriodicSave
    \/ WaitForExitReturns

SpecAccounting == Init /\ [][NextAccounting]_vars

\* The PPLNS state after the consumer has applied the events es in order.
RECURSIVE Replay(_, _)
Replay(es, checks) ==
    IF es = <<>> THEN EmptyPPLNS
    ELSE LET before == Replay(SubSeq(es, 1, Len(es) - 1), checks)
             e == es[Len(es)]
         IN  CASE e.type = "NewShare" ->
                    add_share(before, Share(e.value, e.address), checks).state
               [] e.type = "SetN" -> set_n(before, e.n, checks).state
               [] OTHER -> before

\* Position in es of its k-th NewSolution (0 if there are fewer).
RECURSIVE SolutionIndex(_, _, _)
SolutionIndex(es, k, from) ==
    IF from > Len(es) THEN 0
    ELSE IF es[from].type = "NewSolution"
         THEN IF k = 1 THEN from ELSE SolutionIndex(es, k - 1, from + 1)
         ELSE SolutionIndex(es, k, from + 1)

\* C3: events are handled in the order the channel accepted them: the
\* snapshot taken for the k-th NewSolution is the PPLNS state after exactly
\* the NewShare and SetN events accepted before that NewSolution.
C3_SolutionSeesExactlyEarlierEvents ==
    \A k \in 1 .. Len(solutions) :
        LET at == SolutionIndex(accepted, k, 1) IN
        /\ at > 0
        /\ solutions[k].queue =
              Replay(SubSeq(accepted, 1, at - 1), overflow_checks).queue

\* C3 witness: a NewSolution was handled between two effective events: its
\* snapshot holds a share, and a later event has since changed the queue.
C3_WitnessSolutionBetweenShares ==
    /\ Len(solutions) = 1
    /\ solutions[1].queue # <<>>
    /\ handled > SolutionIndex(accepted, 1, 1)
    /\ pplns.queue # solutions[1].queue

\* C4: when wait_for_exit has returned, the Exit handler has made its final
\* save, and a final save that succeeded wrote the PPLNS state that has every
\* accepted event applied.
C4_FinalSaveCoversAcceptedEvents ==
    waiter = "returned" =>
        /\ final_save.done
        /\ final_save.ok => final_save.state = Replay(accepted, overflow_checks)

\* The shares add_share has been called with, in call order: the NewShare
\* events among es.
RECURSIVE SharesAdded(_)
SharesAdded(es) ==
    IF es = <<>> THEN <<>>
    ELSE LET before == SharesAdded(SubSeq(es, 1, Len(es) - 1))
             e == es[Len(es)]
         IN  IF e.type = "NewShare"
             THEN Append(before, Share(e.value, e.address))
             ELSE before

IsSuffix(q, all) ==
    /\ Len(q) <= Len(all)
    /\ q = SubSeq(all, Len(all) - Len(q) + 1, Len(all))

\* C31: the queue keeps the insertion order of add_share and is evicted from
\* the head only: in every reachable state the queue is a contiguous suffix
\* of the sequence of all shares ever added, in the order they were added.
C31_QueueIsSuffixOfAdded ==
    IsSuffix(pplns.queue, SharesAdded(SubSeq(accepted, 1, handled)))

\* C31 witness: the head has been evicted and two different shares remain.
C31_WitnessProperSuffix ==
    /\ Len(pplns.queue) = 2
    /\ pplns.queue[1] # pplns.queue[2]
    /\ Len(SharesAdded(SubSeq(accepted, 1, handled))) > 2

(***************************************************************************)
(* The consumer fed with the events of the shrink example: windows 10 and   *)
(* 6, shares (3, A), (5, B) and (2, A).                                     *)
(***************************************************************************)
MaxShrinkEvents == 5      \* events accepted on the channel in one run

ShrinkEvents ==
    {SetN(10), SetN(6), NewShare("A", 3), NewShare("B", 5), NewShare("A", 2)}

ShrinkSend ==
    /\ ~rx_closed
    /\ Len(channel) < ChannelCapacity
    /\ Len(accepted) < MaxShrinkEvents
    /\ \E e \in ShrinkEvents :
          /\ channel' = Append(channel, e)
          /\ accepted' = Append(accepted, e)
    /\ UNCHANGED <<pplns, overflow_checks, consumer, last_op, rx_closed, handled,
                   disk, exit_lock, final_save, solutions, waiter>>
    /\ UNCHANGED <<saver, round_vars>>
    /\ UNCHANGED <<conn_vars, ext_vars>>

NextShrink == ShrinkSend \/ HandleNewShare \/ HandleSetN

SpecShrink == Init /\ [][NextShrink]_vars

ShrinkStart ==
    [queue |-> <<Share(3, "A"), Share(5, "B"), Share(2, "A")>>,
     current_n |-> 10, n |-> 10]
ShrinkEnd == [queue |-> <<Share(2, "A")>>, current_n |-> 2, n |-> 6]

\* C32: from queue [(3,A),(5,B),(2,A)] with n = 10 and current_n = 10,
\* set_n(6) evicts from the head until current_n <= 6 and ends with queue
\* [(2,A)], current_n = 2 and n = 6.
C32_ShrinkToSix ==
    [][(/\ pplns = ShrinkStart
        /\ channel # <<>>
        /\ Head(channel) = SetN(6)
        /\ handled' = handled + 1)
          => /\ pplns' = ShrinkEnd
             /\ last_op' = [op |-> "set_n", popped |-> 2, panicked |-> FALSE]]_vars

\* C32 witness: the example has been played in full.
C32_WitnessShrunk ==
    /\ SubSeq(accepted, 1, handled) =
          <<SetN(10), NewShare("A", 3), NewShare("B", 5), NewShare("A", 2), SetN(6)>>
    /\ pplns = ShrinkEnd
    /\ last_op.op = "set_n"

(***************************************************************************)
(* Connection: strings are sequences of tokens (words, digits and           *)
(* punctuation), so that split, semver parsing and hex decoding are         *)
(* computed, not assumed.                                                   *)
(***************************************************************************)
PEER_HANDSHAKE_TIMEOUT == 10
PEER_COMM_TIMEOUT == 180
MIN_SUPPORTED_VERSION == <<2, 0, 0>>
MAX_SUPPORTED_VERSION == <<2, 0, 0>>

MaxTime == 360          \* the clock stops here
MaxHubMessages == 3     \* frames are read while to_hub is shorter
MaxPeerFrames == 3      \* the hub pushes while fewer frames are written or queued
TickSteps == {90}

PoolAddress == "aleo1pool"
ValidAddresses == {"aleo1prover"}

LowerHex == <<"0", "1", "2", "3", "4", "5", "6", "7", "8", "9",
              "a", "b", "c", "d", "e", "f">>
UpperHex == <<"A", "B", "C", "D", "E", "F">>
IsDigit(c) == \E i \in 1 .. 10 : LowerHex[i] = c
IsHexDigit(c) == (\E i \in 1 .. 16 : LowerHex[i] = c) \/ (\E i \in 1 .. 6 : UpperHex[i] = c)
HexVal(c) ==
    IF \E i \in 1 .. 16 : LowerHex[i] = c
    THEN (CHOOSE i \in 1 .. 16 : LowerHex[i] = c) - 1
    ELSE (CHOOSE i \in 1 .. 6 : UpperHex[i] = c) + 9

\* str::split(sep): the pieces between separators (one piece if none occurs).
RECURSIVE Split(_, _)
Split(text, sep) ==
    IF text = <<>> THEN << <<>> >>
    ELSE LET rest == Split(Tail(text), sep) IN
         IF Head(text) = sep
         THEN << <<>> >> \o rest
         ELSE << <<Head(text)>> \o rest[1] >> \o Tail(rest)

\* A semver numeric identifier: digits only, no leading zero.
RECURSIVE DecimalValue(_)
DecimalValue(part) ==
    IF part = <<>> THEN 0
    ELSE 10 * DecimalValue(SubSeq(part, 1, Len(part) - 1)) + HexVal(part[Len(part)])

IsNumericIdentifier(part) ==
    /\ part # <<>>
    /\ \A i \in 1 .. Len(part) : IsDigit(part[i])
    /\ Len(part) > 1 => part[1] # "0"

\* semver::Version::parse on MAJOR.MINOR.PATCH text.
VersionParse(text) ==
    LET parts == Split(text, ".") IN
    IF Len(parts) = 3 /\ \A i \in 1 .. 3 : IsNumericIdentifier(parts[i])
    THEN [ok |-> TRUE,
          version |-> <<DecimalValue(parts[1]), DecimalValue(parts[2]),
                        DecimalValue(parts[3])>>]
    ELSE [ok |-> FALSE, version |-> <<0, 0, 0>>]

\* Version's ordering: major, then minor, then patch.
VersionLess(a, b) ==
    \/ a[1] < b[1]
    \/ a[1] = b[1] /\ a[2] < b[2]
    \/ a[1] = b[1] /\ a[2] = b[2] /\ a[3] < b[3]

\* hex::decode: an even number of hex digits, two per byte.
RECURSIVE HexBytes(_)
HexBytes(text) ==
    IF text = <<>> THEN <<>>
    ELSE <<16 * HexVal(text[1]) + HexVal(text[2])>> \o HexBytes(SubSeq(text, 3, Len(text)))

HexDecode(text) ==
    IF Len(text) % 2 = 0 /\ \A i \in 1 .. Len(text) : IsHexDigit(text[i])
    THEN [ok |-> TRUE, bytes |-> HexBytes(text)]
    ELSE [ok |-> FALSE, bytes |-> <<>>]

\* u32::from_le_bytes / u64::from_le_bytes
RECURSIVE FromLeBytes(_)
FromLeBytes(bytes) ==
    IF bytes = <<>> THEN 0 ELSE Head(bytes) + 256 * FromLeBytes(Tail(bytes))

\* KZGCommitment::from_bytes_le and KZGProof::from_bytes_le accept the
\* encodings of curve points; here one encoding of each is a point.
CommitmentBytes == {<<192, 1>>}
ProofBytes == {<<192, 2>>}

(***************************************************************************)
(* StratumMessage and ServerMessage                                         *)
(***************************************************************************)
None == [some |-> FALSE, text |-> ""]
Some(text) == [some |-> TRUE, text |-> text]
ResultArray(items) == [tag |-> "Array", items |-> items]
ResultBool(b) == [tag |-> "Bool", items |-> <<IF b THEN "true" ELSE "false">>]

Subscribe(id, user_agent, protocol_version) ==
    [method |-> "mining.subscribe", id |-> id, user_agent |-> user_agent,
     protocol_version |-> protocol_version]
Authorize(id, worker_name) ==
    [method |-> "mining.authorize", id |-> id, worker_name |-> worker_name]
Submit(id, job_id, nonce, commitment, proof) ==
    [method |-> "mining.submit", id |-> id, job_id |-> job_id, nonce |-> nonce,
     commitment |-> commitment, proof |-> proof]
SetTarget == [method |-> "mining.set_target", id |-> 0]
Notify == [method |-> "mining.notify", id |-> 0]
Response(id, result) == [method |-> "response", id |-> id, result |-> result]

ProverDisconnected(peer) ==
    [type |-> "ProverDisconnected", peer |-> peer]
ProverAuthenticated(peer, address) ==
    [type |-> "ProverAuthenticated", peer |-> peer, address |-> address]
ProverSubmit(id, peer, epoch, nonce, commitment, proof) ==
    [type |-> "ProverSubmit", peer |-> peer, id |-> id, epoch |-> epoch,
     nonce |-> nonce, commitment |-> commitment, proof |-> proof]

\* What framed.next() yields.
Frame(msg) == [kind |-> "frame", msg |-> msg]
DecodeError == [kind |-> "error", msg |-> [method |-> "none", id |-> 0]]
Eof == [kind |-> "eof", msg |-> [method |-> "none", id |-> 0]]
Elapsed == [kind |-> "timeout", msg |-> [method |-> "none", id |-> 0]]

(***************************************************************************)
(* The frames a peer sends in this model.                                   *)
(***************************************************************************)
V_2_0_0 == <<"AleoStratum", "/", "2", ".", "0", ".", "0">>
V_1_9_0 == <<"AleoStratum", "/", "1", ".", "9", ".", "0">>
V_2_0_1 == <<"AleoStratum", "/", "2", ".", "0", ".", "1">>
V_2_1_0 == <<"AleoStratum", "/", "2", ".", "1", ".", "0">>
V_OtherName == <<"Stratum", "/", "2", ".", "0", ".", "0">>
V_NotSemver == <<"AleoStratum", "/", "2", ".", "0">>
V_NoSlash == <<"AleoStratum">>
ProtocolVersions ==
    {V_2_0_0, V_1_9_0, V_2_0_1, V_2_1_0, V_OtherName, V_NotSemver, V_NoSlash}

Ids == {1, 7}

Hex_Job1 == <<"0", "1", "0", "0", "0", "0", "0", "0">>            \* 4 bytes, epoch 1
Hex_TwoBytes == <<"a", "a", "b", "b">>                            \* 2 bytes
Hex_NotHex == <<"z", "z">>
Hex_Nonce5 == <<"0", "5", "0", "0", "0", "0", "0", "0",
                "0", "0", "0", "0", "0", "0", "0", "0">>          \* 8 bytes, nonce 5
Hex_Commitment == <<"c", "0", "0", "1">>                          \* a curve point
Hex_Proof == <<"c", "0", "0", "2">>                               \* a curve point

JobIds == {Hex_Job1, Hex_TwoBytes, Hex_NotHex}
Nonces == {Hex_Nonce5, Hex_TwoBytes, Hex_NotHex}
Commitments == {Hex_Commitment, Hex_TwoBytes, Hex_NotHex}
Proofs == {Hex_Proof, Hex_TwoBytes, Hex_NotHex}

PeerMessages ==
    {Subscribe(id, "miner/1.0", v) : id \in Ids, v \in ProtocolVersions}
    \cup {Authorize(id, a) : id \in Ids, a \in {"aleo1prover", "not-an-address"}}
    \cup {Submit(id, Hex_Job1, Hex_Nonce5, Hex_Commitment, Hex_Proof) : id \in Ids}
    \cup {Submit(1, j, Hex_Nonce5, Hex_Commitment, Hex_Proof) : j \in JobIds}
    \cup {Submit(1, j, n, Hex_Commitment, Hex_Proof) : j \in JobIds, n \in Nonces}
    \cup {Submit(1, Hex_Job1, Hex_Nonce5, c, p) : c \in Commitments, p \in Proofs}
    \cup {SetTarget, Notify, Response(1, ResultBool(TRUE))}

PeerInputs == {Frame(m) : m \in PeerMessages} \cup {DecodeError, Eof}

HubMessages == {Notify, SetTarget}

(***************************************************************************)
(* Connection::handshake, Connection::authorize and the Active loop         *)
(***************************************************************************)
Refused == [ok |-> FALSE, frames |-> <<>>, address |-> ""]

\* A plausible slip: only the upper end of the supported range is checked.
VersionSupportedNoMinimum(version) == ~VersionLess(MAX_SUPPORTED_VERSION, version)

\* !(version < MIN_SUPPORTED_VERSION || version > MAX_SUPPORTED_VERSION)
VersionSupported(version) ==
    ~(VersionLess(version, MIN_SUPPORTED_VERSION)
      \/ VersionLess(MAX_SUPPORTED_VERSION, version))

\* Connection::handshake on what timeout(10 s, framed.next()) yielded;
\* sent tells whether framed.send succeeds.
handshake(res, pool_address, sent) ==
    IF res.kind = "frame" /\ res.msg.method = "mining.subscribe"
    THEN LET split == Split(res.msg.protocol_version, "/") IN
         IF Len(split) # 2 THEN Refused
         ELSE IF split[1] # <<"AleoStratum">> THEN Refused
         ELSE LET v == VersionParse(split[2]) IN
              IF ~v.ok THEN Refused
              ELSE IF ~VersionSupported(v.version) THEN Refused
              ELSE IF ~sent THEN Refused
              ELSE [ok |-> TRUE,
                    frames |-> <<Response(res.msg.id,
                                          ResultArray(<<None, None, Some(pool_address)>>))>>,
                    address |-> ""]
    ELSE Refused

\* A plausible slip: the address is not parsed before it is accepted.
authorize_unparsed(res, sent) ==
    IF res.kind = "frame" /\ res.msg.method = "mining.authorize" /\ sent
    THEN [ok |-> TRUE, frames |-> <<Response(res.msg.id, ResultBool(TRUE))>>,
          address |-> res.msg.worker_name]
    ELSE Refused

\* Connection::authorize
authorize(res, sent) ==
    IF res.kind = "frame" /\ res.msg.method = "mining.authorize"
    THEN IF res.msg.worker_name \notin ValidAddresses THEN Refused
         ELSE IF ~sent THEN Refused
         ELSE [ok |-> TRUE, frames |-> <<Response(res.msg.id, ResultBool(TRUE))>>,
               address |-> res.msg.worker_name]
    ELSE Refused

Continue(hub) == [next |-> "continue", hub |-> hub]
Break == [next |-> "break", hub |-> <<>>]
Panic == [next |-> "panic", hub |-> <<>>]

\* A plausible slip: the job_id is decoded but its length is not checked.
on_submit_any_job_length(msg, peer) ==
    LET job_bytes == HexDecode(msg.job_id)
        nonce_bytes == HexDecode(msg.nonce)
        commitment_bytes == HexDecode(msg.commitment)
        proof_bytes == HexDecode(msg.proof)
    IN  IF ~job_bytes.ok THEN Break
        ELSE IF ~nonce_bytes.ok THEN Break
        ELSE IF Len(nonce_bytes.bytes) # 8 THEN Panic
        ELSE IF ~commitment_bytes.ok THEN Break
        ELSE IF commitment_bytes.bytes \notin CommitmentBytes THEN Break
        ELSE IF ~proof_bytes.ok THEN Break
        ELSE IF proof_bytes.bytes \notin ProofBytes THEN Break
        ELSE Continue(<<ProverSubmit(msg.id, peer, FromLeBytes(job_bytes.bytes),
                                     FromLeBytes(nonce_bytes.bytes),
                                     commitment_bytes.bytes, proof_bytes.bytes)>>)

\* A plausible slip: the proof is hex-decoded but not parsed as a curve point.
on_submit_unparsed_proof(msg, peer) ==
    LET job_bytes == HexDecode(msg.job_id)
        nonce_bytes == HexDecode(msg.nonce)
        commitment_bytes == HexDecode(msg.commitment)
        proof_bytes == HexDecode(msg.proof)
    IN  IF ~job_bytes.ok THEN Break
        ELSE IF Len(job_bytes.bytes) # 4 THEN Break
        ELSE IF ~nonce_bytes.ok THEN Break
        ELSE IF Len(nonce_bytes.bytes) # 8 THEN Panic
        ELSE IF ~commitment_bytes.ok THEN Break
        ELSE IF commitment_bytes.bytes \notin CommitmentBytes THEN Break
        ELSE IF ~proof_bytes.ok THEN Break
        ELSE Continue(<<ProverSubmit(msg.id, peer, FromLeBytes(job_bytes.bytes),
                                     FromLeBytes(nonce_bytes.bytes),
                                     commitment_bytes.bytes, proof_bytes.bytes)>>)

\* The Submit arm of the Active loop.
on_submit(msg, peer) ==
    LET job_bytes == HexDecode(msg.job_id)
        nonce_bytes == HexDecode(msg.nonce)
        commitment_bytes == HexDecode(msg.commitment)
        proof_bytes == HexDecode(msg.proof)
    IN  IF ~job_bytes.ok THEN Break
        ELSE IF Len(job_bytes.bytes) # 4 THEN Break
        ELSE IF ~nonce_bytes.ok THEN Break
        ELSE IF Len(nonce_bytes.bytes) # 8 THEN Panic     \* try_into().unwrap()
        ELSE IF ~commitment_bytes.ok THEN Break
        ELSE IF commitment_bytes.bytes \notin CommitmentBytes THEN Break
        ELSE IF ~proof_bytes.ok THEN Break
        ELSE IF proof_bytes.bytes \notin ProofBytes THEN Break
        ELSE Continue(<<ProverSubmit(msg.id, peer, FromLeBytes(job_bytes.bytes),
                                     FromLeBytes(nonce_bytes.bytes),
                                     commitment_bytes.bytes, proof_bytes.bytes)>>)

\* A plausible slip: an unexpected message is logged and the loop goes on.
on_inbound_lenient(res, peer) ==
    IF res.kind = "frame"
    THEN IF res.msg.method = "mining.submit" THEN on_submit(res.msg, peer)
         ELSE Continue(<<>>)
    ELSE Break

\* The inbound branch of the Active loop: result = framed.next()
on_inbound(res, peer) ==
    IF res.kind = "frame"
    THEN IF res.msg.method = "mining.submit" THEN on_submit(res.msg, peer)
         ELSE Break
    ELSE Break

\* A plausible slip: framed.next() is awaited without the timeout wrapper, so
\* a frame is taken however late it comes.
UntimedInputs == PeerInputs

\* timeout(PEER_HANDSHAKE_TIMEOUT, framed.next()): what can come back now.
TimedInputs ==
    (IF now - phase_start <= PEER_HANDSHAKE_TIMEOUT THEN PeerInputs ELSE {})
    \cup (IF now - phase_start >= PEER_HANDSHAKE_TIMEOUT THEN {Elapsed} ELSE {})

Receive(res) ==
    received' = IF res.kind = "timeout" THEN received ELSE Append(received, res)

\* Leaving run: ProverDisconnected goes to the hub and the task returns.
Disconnect ==
    /\ to_hub' = Append(to_hub, ProverDisconnected(PeerAddr))
    /\ pc' = "closed"

\* run, lines 81-91: handshake, or ProverDisconnected and return.
RunHandshake ==
    /\ pc = "handshake"
    /\ \E res \in TimedInputs, sent \in BOOLEAN :
          LET r == handshake(res, PoolAddress, sent) IN
          /\ Receive(res)
          /\ IF r.ok
             THEN /\ to_peer' = to_peer \o r.frames
                  /\ pc' = "authorize"
                  /\ phase_start' = now
                  /\ UNCHANGED to_hub
             ELSE /\ Disconnect
                  /\ UNCHANGED <<to_peer, phase_start>>
    /\ UNCHANGED <<outbound, hub_holds_sender, now, last_received>>
    /\ UNCHANGED <<acct_vars, ext_vars>>

\* run, lines 93-119: authorize, then ProverAuthenticated hands the outbound
\* sender to the hub; or ProverDisconnected and return.
RunAuthorize ==
    /\ pc = "authorize"
    /\ \E res \in TimedInputs, sent \in BOOLEAN :
          LET r == authorize(res, sent) IN
          /\ Receive(res)
          /\ IF r.ok
             THEN /\ to_peer' = to_peer \o r.frames
                  /\ to_hub' = Append(to_hub, ProverAuthenticated(PeerAddr, r.address))
                  /\ hub_holds_sender' = "held"
                  /\ last_received' = now
                  /\ pc' = "active"
             ELSE /\ Disconnect
                  /\ UNCHANGED <<to_peer, hub_holds_sender, last_received>>
    /\ UNCHANGED <<outbound, now, phase_start>>
    /\ UNCHANGED <<acct_vars, ext_vars>>

\* select! branch: Some(msg) = receiver.recv()
ActiveOutbound ==
    /\ pc = "active"
    /\ outbound # <<>>
    /\ outbound' = Tail(outbound)
    /\ IF last_received # -1 /\ now - last_received > PEER_COMM_TIMEOUT
       THEN /\ Disconnect
            /\ UNCHANGED to_peer
       ELSE /\ \E sent \in BOOLEAN :
                  to_peer' = IF sent THEN Append(to_peer, Head(outbound)) ELSE to_peer
            /\ UNCHANGED <<to_hub, pc>>
    /\ UNCHANGED <<hub_holds_sender, now, phase_start, last_received, received>>
    /\ UNCHANGED <<acct_vars, ext_vars>>

\* select! branch: result = framed.next()
ActiveInbound ==
    /\ pc = "active"
    /\ Len(to_hub) < MaxHubMessages
    /\ \E res \in PeerInputs :
          LET r == on_inbound(res, PeerAddr) IN
          /\ Receive(res)
          /\ last_received' = IF res.kind = "frame" THEN now ELSE last_received
          /\ CASE r.next = "continue" -> to_hub' = to_hub \o r.hub /\ UNCHANGED pc
               [] r.next = "break" -> Disconnect
               [] r.next = "panic" -> pc' = "panicked" /\ UNCHANGED to_hub
    /\ UNCHANGED <<to_peer, outbound, hub_holds_sender, now, phase_start>>
    /\ UNCHANGED <<acct_vars, ext_vars>>

\* The hub sends a message on the outbound sender it was handed.
HubPush ==
    /\ hub_holds_sender = "held"
    /\ pc = "active"
    /\ Len(to_peer) + Len(outbound) < MaxPeerFrames
    /\ \E msg \in HubMessages : outbound' = Append(outbound, msg)
    /\ UNCHANGED <<pc, to_peer, to_hub, hub_holds_sender, now, phase_start,
                   last_received, received>>
    /\ UNCHANGED <<acct_vars, ext_vars>>

\* The hub drops the outbound sender of a live connection (it removes the
\* registration).
HubDrop ==
    /\ hub_holds_sender = "held"
    /\ pc = "active"
    /\ hub_holds_sender' = "dropped"
    /\ UNCHANGED <<pc, to_peer, to_hub, outbound, now, phase_start, last_received,
                   received>>
    /\ UNCHANGED <<acct_vars, ext_vars>>

\* Time passes while the connection task is alive.
Tick ==
    /\ pc \in {"handshake", "authorize", "active"}
    /\ \E d \in TickSteps :
          /\ now + d <= MaxTime
          /\ now' = now + d
    /\ UNCHANGED <<pc, to_peer, to_hub, outbound, hub_holds_sender, phase_start,
                   last_received, received>>
    /\ UNCHANGED <<acct_vars, ext_vars>>

NextConnection ==
    \/ RunHandshake
    \/ RunAuthorize
    \/ ActiveOutbound
    \/ ActiveInbound
    \/ HubPush
    \/ HubDrop
    \/ Tick

SpecConnection == Init /\ [][NextConnection]_vars

\* Scheduling: tokio polls the select! branch of a buffered outbound message,
\* and time keeps passing.  The peer and the hub are free to stay silent.
SpecConnectionFair ==
    /\ SpecConnection
    /\ WF_vars(ActiveOutbound)
    /\ WF_vars(Tick)

(***************************************************************************)
(* Restarting on the state file: PPLNS::load in Accounting::init.           *)
(***************************************************************************)
MaxSmallQueue == 2     \* add_share is explored while the queue is shorter, where
                       \* a file or a snapshot is kept beside the PPLNS

\* The process is started again on the file the last run left: the PPLNS,
\* the channel and the tasks are new; a load that panics ends start-up.
Restart ==
    /\ LET r == load(disk) IN
          /\ pplns' = r.state
          /\ consumer' = IF r.ok THEN "running" ELSE "not_started"
          /\ saver' = IF r.ok THEN "sleeping" ELSE "not_started"
          /\ last_op' = [op |-> "load", popped |-> 0, panicked |-> ~r.ok]
    /\ channel' = <<>>
    /\ rx_closed' = FALSE
    /\ exit_lock' = FALSE
    /\ round_pc' = "idle"
    /\ round_snapshot' = NoSnapshot
    /\ round_cache' = EmptyCache
    /\ UNCHANGED <<overflow_checks, accepted, handled, disk, final_save, solutions,
                   waiter, round_calls, round_reply>>
    /\ UNCHANGED <<conn_vars, ext_vars>>

\* add_share and set_n of a run that has not written the file yet.
PersistAddShare ==
    /\ disk.status = "missing"
    /\ Len(pplns.queue) < MaxSmallQueue
    /\ AddShareOp

PersistSetN ==
    /\ disk.status = "missing"
    /\ SetNOp

NextPersistence ==
    \/ PersistAddShare
    \/ PersistSetN
    \/ PeriodicSave
    \/ Restart

SpecPersistence == Init /\ [][NextPersistence]_vars

(***************************************************************************)
(* The NewSolution arm applied directly to any PPLNS state, as AddShareOp   *)
(* and SetNOp apply add_share and set_n.                                    *)
(***************************************************************************)
MaxSolutions == 1      \* snapshots taken in one run

NewSolutionOp ==
    /\ consumer = "running"
    /\ Len(solutions) < MaxSolutions
    /\ OnNewSolution
    /\ UNCHANGED <<pplns, overflow_checks, last_op, channel, rx_closed, accepted,
                   handled, disk, exit_lock, final_save, waiter>>
    /\ UNCHANGED <<saver, round_vars>>
    /\ UNCHANGED <<conn_vars, ext_vars>>

\* add_share and set_n before the snapshot is taken.
SharesAddShare ==
    /\ solutions = <<>>
    /\ Len(pplns.queue) < MaxSmallQueue
    /\ AddShareOp

SharesSetN ==
    /\ solutions = <<>>
    /\ SetNOp

NextShares ==
    \/ SharesAddShare
    \/ SharesSetN
    \/ NewSolutionOp

SpecShares == Init /\ [][NextShares]_vars

(***************************************************************************)
(* Accounting::current_round, and the round cache of cache/src/lib.rs.      *)
(***************************************************************************)
ROUND_CACHE_DURATION == 10     \* Cache::new(Duration::from_secs(10))
MaxRounds == 2                 \* current_round calls in one run
MaxRoundEvents == 2            \* events sent while current_round is explored

\* A plausible slip: an entry exactly as old as the duration is expired.
cache_get_exclusive(c, t) ==
    IF ~c.present THEN [some |-> FALSE, value |-> NoShares]
    ELSE IF t - c.instant >= ROUND_CACHE_DURATION THEN [some |-> FALSE, value |-> NoShares]
    ELSE [some |-> TRUE, value |-> c.value]

\* Cache::get: None without an entry or once the entry is older than the
\* duration.
cache_get(c, t) ==
    IF ~c.present THEN [some |-> FALSE, value |-> NoShares]
    ELSE IF t - c.instant > ROUND_CACHE_DURATION THEN [some |-> FALSE, value |-> NoShares]
    ELSE [some |-> TRUE, value |-> c.value]

\* Cache::set
cache_set(c, t, value) == [present |-> TRUE, instant |-> t, value |-> value]

\* #[derive(Clone)] on PPLNS: the queue is copied; current_n and n are
\* Arc<RwLock<u64>>, so the clone holds the counters of the original.  The
\* fields current_n and n here are the values the counters had when the clone
\* was made; a read through the clone goes to the shared counters.
clone(s) == [queue |-> s.queue, current_n |-> s.current_n, n |-> s.n]
SharedCounters == [current_n |-> pplns.current_n, n |-> pplns.n]

\* let pplns = self.pplns.clone().read().await.clone();
RoundClone ==
    /\ round_pc # "cloned"
    /\ round_calls < MaxRounds
    /\ round_calls' = round_calls + 1
    /\ round_snapshot' = clone(pplns)
    /\ round_pc' = "cloned"
    /\ UNCHANGED <<pplns, overflow_checks, consumer, last_op, channel, rx_closed,
                   accepted, handled, disk, exit_lock, final_save, solutions, waiter,
                   saver, round_cache, round_reply>>
    /\ UNCHANGED <<conn_vars, ext_vars>>

\* After the awaits on round_cache: the cached pair or a fresh aggregation of
\* the clone's queue, then json!({n, current_n, provers, shares}).
RoundFinish ==
    /\ round_pc = "cloned"
    /\ LET cache == cache_get(round_cache, now)
           fresh == pplns_to_provers_shares(round_snapshot, overflow_checks)
       IN  IF ~cache.some /\ fresh.panicked
           THEN /\ round_pc' = "panicked"
                /\ UNCHANGED <<round_cache, round_reply>>
           ELSE LET result == IF cache.some THEN cache.value
                              ELSE [num_provers |-> fresh.num_provers,
                                    shares |-> fresh.shares]
                IN  /\ round_cache' = IF cache.some THEN round_cache
                                      ELSE cache_set(round_cache, now, result)
                    /\ round_reply' = [served |-> TRUE,
                                       n |-> SharedCounters.n,
                                       current_n |-> SharedCounters.current_n,
                                       provers |-> result.num_provers,
                                       shares |-> result.shares,
                                       snapshot |-> round_snapshot]
                    /\ round_pc' = "idle"
    /\ UNCHANGED <<pplns, overflow_checks, consumer, last_op, channel, rx_closed,
                   accepted, handled, disk, exit_lock, final_save, solutions, waiter,
                   saver, round_calls, round_snapshot>>
    /\ UNCHANGED <<conn_vars, ext_vars>>

\* The senders of this specification send shares and window sizes only.
RoundSend ==
    /\ Len(accepted) < MaxRoundEvents
    /\ Send
    /\ channel'[Len(channel')].type \in {"NewShare", "SetN"}

NextRound ==
    \/ RoundSend
    \/ HandleNewShare
    \/ HandleSetN
    \/ RoundClone
    \/ RoundFinish
    \/ Tick

SpecRound == Init /\ [][NextRound]_vars

(***************************************************************************)
(* current_round against a clock that moves in steps around the cache       *)
(* duration.                                                                *)
(***************************************************************************)
MaxCacheTime == 16          \* the clock stops here
CacheTickSteps == {5, 6}

CacheTick ==
    /\ \E d \in CacheTickSteps :
          /\ now + d <= MaxCacheTime
          /\ now' = now + d
    /\ UNCHANGED <<pc, to_peer, to_hub, outbound, hub_holds_sender, phase_start,
                   last_received, received>>
    /\ UNCHANGED <<acct_vars, ext_vars>>

NextCache ==
    \/ RoundSend
    \/ HandleNewShare
    \/ HandleSetN
    \/ RoundClone
    \/ RoundFinish
    \/ CacheTick

SpecCache == Init /\ [][NextCache]_vars

\* What Cache::get yields now: the value of the last set while it is at most
\* 10 s old.
C33_Get ==
    cache_get(round_cache, now) =
        IF round_cache.present /\ now - round_cache.instant <= 10
        THEN [some |-> TRUE, value |-> round_cache.value]
        ELSE [some |-> FALSE, value |-> NoShares]

\* A current_round call completes.
C33_Call ==
    (round_pc = "cloned" /\ round_pc' = "idle") =>
        LET fresh == pplns_to_provers_shares(round_snapshot, overflow_checks) IN
        IF round_cache.present /\ now - round_cache.instant <= 10
        THEN /\ round_reply'.provers = round_cache.value.num_provers
             /\ round_reply'.shares = round_cache.value.shares
             /\ round_cache' = round_cache
        ELSE /\ round_reply'.provers = fresh.num_provers
             /\ round_reply'.shares = fresh.shares
             /\ round_cache' = [present |-> TRUE, instant |-> now,
                                 value |-> [num_provers |-> fresh.num_provers,
                                            shares |-> fresh.shares]]

\* C33: current_round serves (provers, shares) from a cache with a 10 s time
\* to live: a call made within 10 s of a recomputation returns the provers and
\* shares of that recomputation even if shares were added meanwhile, the
\* first call made more than 10 s after it recomputes from the PPLNS state of
\* the call; Cache::get returns the value of the last set iff at most 10 s
\* have passed since that set, and None otherwise.
C33_RoundServedFromTtlCache == []C33_Get /\ [][C33_Call]_vars

\* C33 witness: a second call was answered from an entry exactly 10 s old
\* although a share handled since the recomputation has changed the
\* aggregation.
C33_WitnessStaleHitAtTen ==
    /\ round_calls = 2
    /\ round_pc = "idle"
    /\ round_reply.served
    /\ round_cache.present
    /\ now - round_cache.instant = 10
    /\ round_reply.shares = round_cache.value.shares
    /\ round_reply.shares #
          pplns_to_provers_shares(round_reply.snapshot, overflow_checks).shares

HubCount(type) == Cardinality({i \in 1 .. Len(to_hub) : to_hub[i].type = type})
EnteredActive == HubCount("ProverAuthenticated") > 0
FirstFrameIs(method) ==
    /\ Len(received) >= 1
    /\ received[1].kind = "frame"
    /\ received[1].msg.method = method
LastFrameIs(method) ==
    /\ received # <<>>
    /\ received[Len(received)].kind = "frame"
    /\ received[Len(received)].msg.method = method

\* C5: once a connection that entered the Active loop is no longer in it,
\* exactly one ProverDisconnected has been sent to the hub and it is the last
\* message the connection sent there.
C5_ActiveExitAnnouncedOnce ==
    (EnteredActive /\ pc # "active") =>
        /\ HubCount("ProverDisconnected") = 1
        /\ to_hub[Len(to_hub)] = ProverDisconnected(PeerAddr)

\* The protocol versions of the model that the claim lists as refused: wrong
\* name prefix, unparseable semver, version outside [2.0.0, 2.0.0].
RefusedVersions == {V_OtherName, V_NotSemver, V_1_9_0, V_2_0_1, V_2_1_0}

\* C6: if the first frame is a mining.subscribe with a refused protocol
\* version, no frame is ever written to the peer and the only message ever
\* sent to the hub is one ProverDisconnected.
C6_RefusedSubscribeIsSilent ==
    (FirstFrameIs("mining.subscribe")
        /\ received[1].msg.protocol_version \in RefusedVersions) =>
        /\ to_peer = <<>>
        /\ to_hub = <<ProverDisconnected(PeerAddr)>>
        /\ pc = "closed"

\* C6 witness: the subscribe of the literal scenario, AleoStratum/1.9.0.
C6_WitnessOldVersionRefused ==
    /\ FirstFrameIs("mining.subscribe")
    /\ received[1].msg.protocol_version = V_1_9_0
    /\ pc = "closed"

\* C7: ProverAuthenticated is sent at most once, only after a subscribe with
\* a supported version was answered with [null, null, pool_address] under the
\* request's id and an authorize with a parseable address was answered with
\* true under its id; no ProverSubmit precedes it; and the position of run
\* agrees with what has been sent.
C7_PhasesInOrder ==
    /\ HubCount("ProverAuthenticated") <= 1
    /\ \A j \in 1 .. Len(to_hub) :
          /\ to_hub[j].type = "ProverSubmit" =>
                \E i \in 1 .. j - 1 : to_hub[i].type = "ProverAuthenticated"
          /\ to_hub[j].type = "ProverAuthenticated" =>
                /\ Len(received) >= 2 /\ Len(to_peer) >= 2
                /\ FirstFrameIs("mining.subscribe")
                /\ received[1].msg.protocol_version = V_2_0_0
                /\ to_peer[1] = Response(received[1].msg.id,
                                         ResultArray(<<None, None, Some(PoolAddress)>>))
                /\ received[2].kind = "frame"
                /\ received[2].msg.method = "mining.authorize"
                /\ received[2].msg.worker_name \in ValidAddresses
                /\ to_peer[2] = Response(received[2].msg.id, ResultBool(TRUE))
                /\ to_hub[j] = ProverAuthenticated(PeerAddr, received[2].msg.worker_name)
    /\ pc = "handshake" => to_peer = <<>> /\ to_hub = <<>>
    /\ pc = "authorize" => Len(to_peer) = 1 /\ to_hub = <<>>
    /\ pc = "active" => to_hub[1].type = "ProverAuthenticated"

\* C7 witness: an Active connection that subscribed under id 7, authorized
\* under id 1 and has had a submit forwarded.
C7_WitnessActiveAfterBothPhases ==
    /\ pc = "active"
    /\ received[1].msg.id = 7
    /\ received[2].msg.id = 1
    /\ HubCount("ProverSubmit") = 1

\* C8: an Active connection whose last inbound frame is older than 180 s
\* eventually leaves Active, whether or not the hub pushes anything.
C8_InactiveConnectionCloses ==
    (pc = "active" /\ now - last_received > PEER_COMM_TIMEOUT) ~> (pc # "active")

\* C9: once the hub has dropped the outbound sender of an Active connection
\* and the channel is drained, the connection forwards no further submit.
C9_NoSubmitAfterHubDrop ==
    [][(pc = "active" /\ hub_holds_sender = "dropped" /\ outbound = <<>>) =>
          ~(/\ Len(to_hub') > Len(to_hub)
            /\ to_hub'[Len(to_hub')].type = "ProverSubmit")]_vars

\* C10: in Active, a decoded frame that is not mining.submit makes the
\* connection leave Active, and all it sends to the hub is ProverDisconnected.
C10_OnlySubmitAcceptedInActive ==
    [][(/\ pc = "active"
        /\ Len(received') > Len(received)
        /\ received'[Len(received')].kind = "frame"
        /\ received'[Len(received')].msg.method # "mining.submit") =>
          (/\ pc' = "closed"
           /\ to_hub' = Append(to_hub, ProverDisconnected(PeerAddr)))]_vars

\* C10 witness: after a forwarded submit, a mining.notify from the peer has
\* closed the connection.
C10_WitnessNotifyClosesActive ==
    /\ pc = "closed"
    /\ LastFrameIs("mining.notify")
    /\ HubCount("ProverSubmit") = 1

\* The frame a step has just read from the peer.
JustRead == received'[Len(received')]
SubmitReadInActive ==
    /\ pc = "active"
    /\ Len(received') > Len(received)
    /\ JustRead.kind = "frame"
    /\ JustRead.msg.method = "mining.submit"
ClosesWithDisconnect ==
    /\ pc' = "closed"
    /\ to_hub' = Append(to_hub, ProverDisconnected(PeerAddr))
DecodesToLength(text, len) == HexDecode(text).ok /\ Len(HexDecode(text).bytes) = len

\* C11: in Active, a mining.submit whose job_id is not valid hex or does not
\* decode to exactly 4 bytes closes the connection: the loop is left, no
\* ProverSubmit is published and ProverDisconnected(peer) is sent.
C11_BadJobIdCloses ==
    [][(SubmitReadInActive /\ ~DecodesToLength(JustRead.msg.job_id, 4)) =>
          ClosesWithDisconnect]_vars

\* C11 witness: a submit whose job_id decodes to 2 bytes, with every other
\* field valid, has closed the connection and nothing was published.
C11_WitnessShortJobIdCloses ==
    /\ pc = "closed"
    /\ LastFrameIs("mining.submit")
    /\ received[Len(received)].msg.job_id = Hex_TwoBytes
    /\ received[Len(received)].msg.nonce = Hex_Nonce5
    /\ HubCount("ProverSubmit") = 0
    /\ to_hub[Len(to_hub)] = ProverDisconnected(PeerAddr)

\* C12: in Active, a mining.submit whose nonce does not decode to exactly
\* 8 bytes (invalid hex, or valid hex of another length) closes the
\* connection like any other validation failure: the loop is left, no
\* ProverSubmit is published and ProverDisconnected(peer) is sent.
C12_BadNonceCloses ==
    [][(SubmitReadInActive /\ ~DecodesToLength(JustRead.msg.nonce, 8)) =>
          ClosesWithDisconnect]_vars

\* The submits whose four fields validate: a 4-byte job_id, an 8-byte nonce,
\* and a commitment and a proof that decode to curve points.
SubmitValidates(m) ==
    /\ DecodesToLength(m.job_id, 4)
    /\ DecodesToLength(m.nonce, 8)
    /\ m.commitment = Hex_Commitment
    /\ m.proof = Hex_Proof

\* C13: in Active a ProverSubmit is published exactly for the submits whose
\* four fields validate; it carries the request id, the peer address, the
\* little-endian u32 of the job_id bytes and the little-endian u64 of the
\* nonce bytes ("01000000" is epoch 1, "0500000000000000" is nonce 5), and
\* the connection stays Active; a commitment or proof that fails to decode
\* or parse closes the connection with no ProverSubmit.
C13_SubmitPublishedIffValid ==
    [][SubmitReadInActive =>
          LET m == JustRead.msg IN
          /\ SubmitValidates(m) =>
                /\ pc' = "active"
                /\ to_hub' = Append(to_hub,
                        ProverSubmit(m.id, PeerAddr, FromLeBytes(HexDecode(m.job_id).bytes),
                                     FromLeBytes(HexDecode(m.nonce).bytes),
                                     <<192, 1>>, <<192, 2>>))
                /\ m.job_id = Hex_Job1 => to_hub'[Len(to_hub')].epoch = 1
                /\ m.nonce = Hex_Nonce5 => to_hub'[Len(to_hub')].nonce = 5
          /\ ~SubmitValidates(m) =>
                \A i \in 1 .. Len(to_hub') :
                    to_hub'[i].type = "ProverSubmit" => i <= Len(to_hub) /\ to_hub[i] = to_hub'[i]
          /\ (/\ DecodesToLength(m.job_id, 4)
              /\ DecodesToLength(m.nonce, 8)
              /\ (m.commitment # Hex_Commitment \/ m.proof # Hex_Proof)) =>
                ClosesWithDisconnect]_vars

\* C13 witness: the submit of request 7 was published with epoch 1 and nonce 5
\* and the connection is still Active.
C13_WitnessPublishedAndActive ==
    /\ pc = "active"
    /\ LastFrameIs("mining.submit")
    /\ received[Len(received)].msg.id = 7
    /\ to_hub[Len(to_hub)] = ProverSubmit(7, PeerAddr, 1, 5, <<192, 1>>, <<192, 2>>)

\* C14: when the 10 s of the handshake or of the authorize phase run out with
\* no frame read, the connection closes: nothing is written to the peer for
\* that step, no ProverAuthenticated is sent, and ProverDisconnected is.
C14_SilentPeerTimesOut ==
    [][(/\ pc \in {"handshake", "authorize"}
        /\ now - phase_start > PEER_HANDSHAKE_TIMEOUT
        /\ pc' # pc) =>
          (/\ received' = received
           /\ to_peer' = to_peer
           /\ ClosesWithDisconnect
           /\ HubCount("ProverAuthenticated") = 0
           /\ to_hub = <<>>)]_vars

\* C14 witness: the subscribe was answered, then the peer stayed silent past
\* the authorize deadline and the connection closed.
C14_WitnessAuthorizeTimedOut ==
    /\ pc = "closed"
    /\ Len(received) = 1
    /\ FirstFrameIs("mining.subscribe")
    /\ Len(to_peer) = 1
    /\ now - phase_start > PEER_HANDSHAKE_TIMEOUT
    /\ to_hub = <<ProverDisconnected(PeerAddr)>>

\* A step of Restart that shows: PPLNS::load has just run.
LoadStep ==
    /\ last_op'.op = "load"
    /\ (last_op' # last_op \/ pplns' # pplns \/ consumer' # consumer)

\* C16: loading the file a successful save of PPLNS state S wrote yields S:
\* the same n, the same current_n and the same queue in the same order.
C16_SaveThenLoadIsIdentity ==
    [][(LoadStep /\ disk.status = "saved") =>
          (/\ ~last_op'.panicked
           /\ consumer' = "running"
           /\ pplns' = disk.state)]_vars

\* C16 witness: a state with two shares of different owners and
\* current_n # n was saved and has been loaded back.
C16_WitnessTwoSharesReloaded ==
    /\ last_op.op = "load"
    /\ ~last_op.panicked
    /\ disk.status = "saved"
    /\ pplns = disk.state
    /\ Len(pplns.queue) = 2
    /\ pplns.queue[1].owner # pplns.queue[2].owner
    /\ pplns.queue[1].value # pplns.queue[2].value
    /\ pplns.current_n # pplns.n

\* C17: load on a missing file yields the empty state and the run goes on;
\* load on an existing file that does not decode fails and start-up ends:
\* no task runs on an empty state put in its place.
C17_LoadMissingOrFail ==
    [][LoadStep =>
          (/\ disk.status = "missing" =>
                 (/\ ~last_op'.panicked
                  /\ consumer' = "running"
                  /\ pplns' = EmptyPPLNS)
           /\ (disk.status # "missing" /\ ~Decode(disk.bytes).ok) =>
                 (/\ last_op'.panicked
                  /\ consumer' = "not_started"
                  /\ saver' = "not_started"))]_vars

\* C17 witness: a write that stopped one word short of a queue of two shares
\* was met at start-up, and start-up failed.
C17_WitnessTruncatedFileFailsStart ==
    /\ last_op.op = "load"
    /\ last_op.panicked
    /\ consumer = "not_started"
    /\ disk.status = "corrupt"
    /\ Len(disk.bytes) > 6

OwnersOf(q) == {q[i].owner : i \in 1 .. Len(q)}
RECURSIVE OwnerSum(_, _)
OwnerSum(q, o) ==
    IF q = <<>> THEN 0
    ELSE (IF Head(q).owner = o THEN Head(q).value ELSE 0) + OwnerSum(Tail(q), o)
RECURSIVE MapSum(_, _)
MapSum(m, keys) ==
    IF keys = {} THEN 0
    ELSE LET k == CHOOSE x \in keys : TRUE IN m[k] + MapSum(m, keys \ {k})

\* C18: the map pplns_to_provers_shares returns for a snapshot has exactly
\* the owners in the queue as keys, each value is the sum of that owner's
\* queued values, num_provers is the number of keys, and the values add up
\* to the sum of the snapshot's queue.
C18_SharesArePerOwnerSums ==
    \A k \in 1 .. Len(solutions) :
        LET q == solutions[k].queue
            m == solutions[k].shares
        IN  /\ DOMAIN m = OwnersOf(q)
            /\ \A o \in DOMAIN m : m[o] = OwnerSum(q, o)
            /\ solutions[k].num_provers = Cardinality(OwnersOf(q))
            /\ MapSum(m, DOMAIN m) = SumValues(q)

\* C19: what current_round reports of a snapshot is a consistent copy: n and
\* current_n are the values at the time the snapshot was taken, and current_n
\* is the sum of the snapshot's own queue.
C19_SnapshotIsConsistent ==
    round_reply.served =>
        /\ round_reply.n = round_reply.snapshot.n
        /\ round_reply.current_n = round_reply.snapshot.current_n
        /\ round_reply.current_n = SumValues(round_reply.snapshot.queue)

\* C20: a step of the periodic save task, failed saves included, leaves the
\* task in its loop, the consumer running as it was and the in-memory PPLNS
\* unchanged.
C20_FailedSaveIsRetried ==
    [][(final_save' = final_save /\ (disk' # disk \/ saver' # saver)) =>
          (/\ saver' = "sleeping"
           /\ pplns' = pplns
           /\ consumer' = consumer
           /\ exit_lock' = exit_lock)]_vars

\* C20 witness: a periodic save failed part-way and left an undecodable
\* file; the task is back in its sleep and the queue still holds its shares.
C20_WitnessFailedSaveTaskAlive ==
    /\ disk.status = "corrupt"
    /\ disk.bytes # <<>>
    /\ ~final_save.done
    /\ saver = "sleeping"
    /\ Len(pplns.queue) = 2

\* C21: the accounting consumer never dies: whatever NewShare, SetN and
\* NewSolution it handles, with any values, no handler panics; add_share and
\* set_n never pop from an empty queue.
C21_ConsumerNeverDies == consumer # "panicked" /\ ~last_op.panicked

(***************************************************************************)
(* The payout loop (Accounting::payout_loop, Accounting::check_solution).  *)
(* The oracle and the payout store are outside the process: each call to    *)
(* them may succeed or fail, and the oracle answers with any JSON value.    *)
(* payout_log records, per iteration of the 'forever loop, every call made. *)
(***************************************************************************)
PAY_INTERVAL == 60
MaxU32 == 2        \* stands for u32::MAX
PayTickSteps == {30, 60}
AsU32(h) == h % (MaxU32 + 1)

\* Rows of the store awaiting payout: (id, commitment).
Solution1 == [id |-> 1, commitment |-> "c1"]
Solution2 == [id |-> 2, commitment |-> "c2"]
Batches == {<<>>, <<Solution1>>, <<Solution1, Solution2>>, <<Solution2, Solution1>>}

\* What the oracle request yields: a transport or body-parse error, JSON null, or
\* another JSON value of which result["height"] and result["reward"] are read;
\* -1 stands for a field that is missing or is not a u64.
OracleError == [kind |-> "error", height |-> -1, reward |-> -1]
OracleNull == [kind |-> "null", height |-> -1, reward |-> -1]
OracleJson(h, r) == [kind |-> "json", height |-> h, reward |-> r]
OracleResponses ==
    {OracleError, OracleNull, OracleJson(-1, 1), OracleJson(1, -1),
     OracleJson(1, 2), OracleJson(MaxU32 + 1, 2)}

LogEntry(call, pos, ok, valid, h, r) ==
    [call |-> call, pos |-> pos, ok |-> ok, valid |-> valid, height |-> h, reward |-> r]

\* check_solution(commitment): the oracle request, then set_solution_valid;
\* mark_ok is whether the store call succeeds.  Returns Ok(valid) or Err and the
\* calls made.
check_solution(pos, response, mark_ok) ==
    IF response.kind = "error"
    THEN [ok |-> FALSE, valid |-> FALSE,
          calls |-> <<LogEntry("oracle", pos, FALSE, FALSE, -1, -1)>>]
    ELSE LET is_valid == response.kind # "null"
             asked == LogEntry("oracle", pos, TRUE, is_valid,
                               response.height, response.reward)
         IN  IF is_valid
             THEN IF response.height = -1 \/ response.reward = -1
                  THEN [ok |-> FALSE, valid |-> FALSE, calls |-> <<asked>>]
                  ELSE [ok |-> mark_ok, valid |-> TRUE,
                        calls |-> <<asked,
                                    LogEntry("mark", pos, mark_ok, TRUE,
                                             AsU32(response.height), response.reward)>>]
             ELSE [ok |-> mark_ok, valid |-> FALSE,
                   calls |-> <<asked, LogEntry("mark", pos, mark_ok, FALSE, -1, -1)>>]

\* After a failure the inner loop goes on with the next solution.
after_failure_continue_inner(pos, batch) ==
    IF pos < Len(batch) THEN [pc |-> "check", pos |-> pos + 1]
                        ELSE [pc |-> "sleep", pos |-> pos]

\* sleep(PAY_INTERVAL); continue 'forever
after_failure(pos, batch) == [pc |-> "sleep", pos |-> pos]

\* The for loop moves to the next solution, or ends in the sleep that closes the
\* loop body.
after_success(pos, batch) ==
    IF pos < Len(batch) THEN [pc |-> "check", pos |-> pos + 1]
                        ELSE [pc |-> "sleep", pos |-> pos]

PayoutFetch ==
    /\ payout_pc = "fetch"
    /\ \/ /\ payout_batch' = <<>>       \* get_should_pay_solutions failed
          /\ payout_log' = <<LogEntry("fetch", 0, FALSE, FALSE, -1, -1)>>
          /\ payout_pc' = "sleep"
          /\ payout_pos' = 0
       \/ \E batch \in Batches :
             /\ payout_batch' = batch
             /\ payout_log' = <<LogEntry("fetch", 0, TRUE, FALSE, -1, -1)>>
             /\ payout_pc' = IF batch = <<>> THEN "sleep" ELSE "check"
             /\ payout_pos' = IF batch = <<>> THEN 0 ELSE 1
    /\ payout_wake' = now + PAY_INTERVAL
    /\ UNCHANGED <<acct_vars, conn_vars, codec_vars, api_vars, hub_vars, save_vars>>

PayoutCheck ==
    /\ payout_pc = "check"
    /\ \E response \in OracleResponses, mark_ok \in BOOLEAN :
          LET r == check_solution(payout_pos, response, mark_ok)
              to == IF ~r.ok THEN after_failure(payout_pos, payout_batch)
                    ELSE IF r.valid THEN [pc |-> "pay", pos |-> payout_pos]
                    ELSE after_success(payout_pos, payout_batch)
          IN  /\ payout_log' = payout_log \o r.calls
              /\ payout_pc' = to.pc
              /\ payout_pos' = to.pos
    /\ payout_wake' = now + PAY_INTERVAL
    /\ UNCHANGED payout_batch
    /\ UNCHANGED <<acct_vars, conn_vars, codec_vars, api_vars, hub_vars, save_vars>>

PayoutPay ==
    /\ payout_pc = "pay"
    /\ \E pay_ok \in BOOLEAN :
          LET to == IF pay_ok THEN after_success(payout_pos, payout_batch)
                    ELSE after_failure(payout_pos, payout_batch)
          IN  /\ payout_log' =
                    Append(payout_log, LogEntry("pay", payout_pos, pay_ok, TRUE, -1, -1))
              /\ payout_pc' = to.pc
              /\ payout_pos' = to.pos
    /\ payout_wake' = now + PAY_INTERVAL
    /\ UNCHANGED payout_batch
    /\ UNCHANGED <<acct_vars, conn_vars, codec_vars, api_vars, hub_vars, save_vars>>

\* sleep(PAY_INTERVAL) is over: the 'forever loop starts its next iteration.
PayoutWake ==
    /\ payout_pc = "sleep"
    /\ now >= payout_wake
    /\ payout_pc' = "fetch"
    /\ payout_batch' = <<>>
    /\ payout_pos' = 0
    /\ payout_log' = <<>>
    /\ UNCHANGED payout_wake
    /\ UNCHANGED <<acct_vars, conn_vars, codec_vars, api_vars, hub_vars, save_vars>>

\* Time passes.
PayoutTick ==
    /\ \E d \in PayTickSteps :
          /\ now + d <= MaxTime
          /\ now' = now + d
    /\ UNCHANGED <<pc, to_peer, to_hub, outbound, hub_holds_sender, phase_start,
                   last_received, received>>
    /\ UNCHANGED <<acct_vars, payout_vars, codec_vars, api_vars, hub_vars, save_vars>>

NextPayout ==
    \/ PayoutFetch
    \/ PayoutCheck
    \/ PayoutPay
    \/ PayoutWake
    \/ PayoutTick

SpecPayout == Init /\ [][NextPayout]_vars

Failed(log) == \E i \in 1..Len(log) : ~log[i].ok

MarkedValidBefore(log, i) ==
    \E j \in 1..(i - 1), k \in 1..(i - 1) :
        /\ j < k
        /\ log[j].call = "oracle" /\ log[j].pos = log[i].pos
        /\ log[j].ok /\ log[j].valid
        /\ log[k].call = "mark" /\ log[k].pos = log[i].pos
        /\ log[k].ok /\ log[k].valid
        /\ log[k].height = log[j].height
        /\ log[k].reward = log[j].reward

\* C23: pay(id) is invoked only for a solution for which, in the same
\* iteration, the oracle returned a non-null response and the store was
\* successfully marked valid with that response's height and reward; a solution
\* whose oracle response is null is marked invalid and is not paid.
C23_PaidOnlyAfterMarkedValid ==
    \A i \in 1..Len(payout_log) :
        /\ payout_log[i].call = "pay" => MarkedValidBefore(payout_log, i)
        /\ (payout_log[i].call = "oracle" /\ payout_log[i].ok /\ ~payout_log[i].valid)
           => /\ i < Len(payout_log)
              /\ payout_log[i + 1].call = "mark"
              /\ payout_log[i + 1].pos = payout_log[i].pos
              /\ ~payout_log[i + 1].valid
              /\ \A m \in 1..Len(payout_log) :
                    payout_log[m].call = "pay" => payout_log[m].pos # payout_log[i].pos

(***************************************************************************)
(* The Stratum codec (src/stratum/src/codec.rs).                            *)
(* A frame is the text between two newlines: its size in bytes and the JSON  *)
(* value its text parses to (NotJson when it does not parse).  JSON strings  *)
(* are token sequences; JSON numbers are integers, of which only those in    *)
(* 0..MaxU64 are a u64.                                                      *)
(***************************************************************************)
MAX_LENGTH == 4096

JNull == [kind |-> "null"]
JBool(b) == [kind |-> "bool", b |-> b]
JNum(n) == [kind |-> "number", n |-> n]
JStr(s) == [kind |-> "string", s |-> s]
JArr(items) == [kind |-> "array", items |-> items]
JObj(fields) == [kind |-> "object", fields |-> fields]
NotJson == [kind |-> "garbage"]

RawFrame(size, json) == [size |-> size, json |-> json]

\* Option<T>
OptNone == [some |-> FALSE]
OptSome(v) == [some |-> TRUE, value |-> v]

\* json_rpc_types::Id
IdNum(n) == [variant |-> "Num", n |-> n]
IdStr(s) == [variant |-> "Str", s |-> s]

\* The elements a ResponseParams::Array holds: Box<dyn BoxedType> of one of the
\* three types that implement BoxedType.
BoxString(s) == [type |-> "String", s |-> s]
BoxOptionU64(o) == [type |-> "Option<u64>", u64 |-> o]
BoxOptionString(o) == [type |-> "Option<String>", string |-> o]

ResponseParamsBool(b) == [variant |-> "Bool", b |-> b]
ResponseParamsArray(v) == [variant |-> "Array", v |-> v]
ResponseParamsNull == [variant |-> "Null"]

\* json_rpc_types::Error<()>
RpcError(code, message) == [code |-> code, message |-> message]

\* StratumMessage, with every field of each variant.
StratumSubscribe(id, user_agent, protocol_version, session_id) ==
    [method |-> "mining.subscribe", id |-> id, user_agent |-> user_agent,
     protocol_version |-> protocol_version, session_id |-> session_id]
StratumAuthorize(id, worker_name, worker_password) ==
    [method |-> "mining.authorize", id |-> id, worker_name |-> worker_name,
     worker_password |-> worker_password]
StratumSetTarget(difficulty_target) ==
    [method |-> "mining.set_target", difficulty_target |-> difficulty_target]
StratumNotify(job_id, epoch_challenge, address, clean_jobs) ==
    [method |-> "mining.notify", job_id |-> job_id,
     epoch_challenge |-> epoch_challenge, address |-> address,
     clean_jobs |-> clean_jobs]
StratumSubmit(id, worker_name, job_id, nonce, commitment, proof) ==
    [method |-> "mining.submit", id |-> id, worker_name |-> worker_name,
     job_id |-> job_id, nonce |-> nonce, commitment |-> commitment,
     proof |-> proof]
StratumResponse(id, result, error) ==
    [method |-> "response", id |-> id, result |-> result, error |-> error]

(***************************************************************************)
(* Serialization                                                           *)
(***************************************************************************)
MapSeq(F(_), seq) == [i \in 1..Len(seq) |-> F(seq[i])]

OptionStringJson(o) == IF o.some THEN JStr(o.value) ELSE JNull
OptionU64Json(o) == IF o.some THEN JNum(o.value) ELSE JNull
IdJson(id) == IF id.variant = "Num" THEN JNum(id.n) ELSE JStr(id.s)
ErrorJson(e) == JObj([code |-> JNum(e.code), message |-> JStr(e.message)])

\* erased_serde serialization of a boxed element
BoxJson(item) ==
    CASE item.type = "String" -> JStr(item.s)
      [] item.type = "Option<u64>" -> OptionU64Json(item.u64)
      [] item.type = "Option<String>" -> OptionStringJson(item.string)

\* impl Serialize for ResponseParams
ResponseParamsJson(p) ==
    CASE p.variant = "Bool" -> JBool(p.b)
      [] p.variant = "Array" -> JArr(MapSeq(BoxJson, p.v))
      [] p.variant = "Null" -> JNull

V2 == JStr(<<"2.0">>)
MethodName(method) == JStr(<<method>>)

\* Request { jsonrpc, method, params: Some(..), id }: the id is left out when
\* it is None.
RequestJson(method, params, id) ==
    IF id.some
    THEN JObj([jsonrpc |-> V2, method |-> MethodName(method), params |-> JArr(params),
               id |-> IdJson(id.value)])
    ELSE JObj([jsonrpc |-> V2, method |-> MethodName(method), params |-> JArr(params)])

\* impl Encoder<StratumMessage> for StratumCodec: the JSON value written.
encode(item) ==
    CASE item.method = "mining.subscribe" ->
            RequestJson(item.method,
                        <<JStr(item.user_agent), JStr(item.protocol_version),
                          OptionStringJson(item.session_id)>>,
                        OptSome(item.id))
      [] item.method = "mining.authorize" ->
            RequestJson(item.method,
                        <<JStr(item.worker_name), JStr(item.worker_password)>>,
                        OptSome(item.id))
      [] item.method = "mining.set_target" ->
            RequestJson(item.method, <<JNum(item.difficulty_target)>>, OptNone)
      [] item.method = "mining.notify" ->
            RequestJson(item.method,
                        <<JStr(item.job_id), JStr(item.epoch_challenge),
                          OptionStringJson(item.address), JBool(item.clean_jobs)>>,
                        OptNone)
      [] item.method = "mining.submit" ->
            RequestJson(item.method,
                        <<JStr(item.worker_name), JStr(item.job_id), JStr(item.nonce),
                          JStr(item.commitment), JStr(item.proof)>>,
                        OptSome(item.id))
      [] item.method = "response" ->
            IF item.error.some
            THEN JObj([jsonrpc |-> V2, error |-> ErrorJson(item.error.value),
                       id |-> IdJson(item.id)])
            ELSE JObj([jsonrpc |-> V2,
                       result |-> IF item.result.some
                                  THEN ResponseParamsJson(item.result.value)
                                  ELSE JNull,
                       id |-> IdJson(item.id)])

(***************************************************************************)
(* Deserialization                                                         *)
(***************************************************************************)
Ok(value) == [ok |-> TRUE, value |-> value]
Err == [ok |-> FALSE]

\* Number::as_u64
as_u64(n) == IF n \in 0..MaxU64 THEN OptSome(n) ELSE OptNone

\* A plausible slip: any JSON value is taken for a string parameter.
unwrap_str_value_any(value) ==
    IF value.kind = "string" THEN Ok(value.s) ELSE Ok(<<>>)

unwrap_str_value(value) ==
    IF value.kind = "string" THEN Ok(value.s) ELSE Err

unwrap_bool_value(value) ==
    IF value.kind = "bool" THEN Ok(value.b) ELSE Err

unwrap_u64_value(value) ==
    IF value.kind = "number" /\ as_u64(value.n).some THEN Ok(value.n) ELSE Err

\* match &params[2] { Value::String(s) => Some(s), Value::Null => None, _ => Err }
unwrap_option_str(value) ==
    CASE value.kind = "string" -> Ok(OptSome(value.s))
      [] value.kind = "null" -> Ok(OptNone)
      [] OTHER -> Err

\* impl Deserialize for ResponseParams: the element a JSON array element becomes
BoxOf(v) ==
    CASE v.kind = "null" -> BoxOptionString(OptNone)
      [] v.kind = "string" -> BoxString(v.s)
      [] v.kind = "number" -> BoxOptionU64(as_u64(v.n))

BoxedKind(v) == v.kind \in {"null", "string", "number"}

\* impl Deserialize for ResponseParams
DeserializeResponseParams(value) ==
    CASE value.kind = "bool" -> Ok(ResponseParamsBool(value.b))
      [] value.kind = "array" ->
            Ok(ResponseParamsArray(MapSeq(BoxOf, SelectSeq(value.items, BoxedKind))))
      [] value.kind = "null" -> Ok(ResponseParamsNull)
      [] OTHER -> Err

\* Option<Id>: a missing or null id is None
DeserializeId(fields) ==
    IF "id" \notin DOMAIN fields THEN Ok(OptNone)
    ELSE CASE fields.id.kind = "null" -> Ok(OptNone)
           [] fields.id.kind = "string" -> Ok(OptSome(IdStr(fields.id.s)))
           [] fields.id.kind = "number" ->
                 IF as_u64(fields.id.n).some THEN Ok(OptSome(IdNum(fields.id.n)))
                 ELSE Err
           [] OTHER -> Err

\* id.unwrap_or(Id::Num(0))
IdOrZero(id) == IF id.some THEN id.value ELSE IdNum(0)

\* serde_json::from_value::<Request<Vec<Value>>>: jsonrpc, method, optional
\* params (an array) and optional id.
DeserializeRequest(fields) ==
    IF /\ "jsonrpc" \in DOMAIN fields
       /\ fields.jsonrpc = V2
       /\ fields.method.kind = "string"
       /\ "params" \in DOMAIN fields => fields.params.kind \in {"array", "null"}
       /\ DeserializeId(fields).ok
    THEN Ok([method |-> fields.method.s,
             params |-> IF "params" \in DOMAIN fields /\ fields.params.kind = "array"
                        THEN OptSome(fields.params.items) ELSE OptNone,
             id |-> DeserializeId(fields).value])
    ELSE Err

\* json_rpc_types::Error<()>: code and message
DeserializeError(value) ==
    IF /\ value.kind = "object"
       /\ DOMAIN value.fields = {"code", "message"}
       /\ value.fields.code.kind = "number"
       /\ value.fields.message.kind = "string"
    THEN Ok(RpcError(value.fields.code.n, value.fields.message.s))
    ELSE Err

\* serde_json::from_value::<Response<ResponseParams, ()>>: exactly one of result
\* and error.
DeserializeResponse(fields) ==
    IF /\ "jsonrpc" \in DOMAIN fields
       /\ fields.jsonrpc = V2
       /\ DeserializeId(fields).ok
       /\ ("result" \in DOMAIN fields) # ("error" \in DOMAIN fields)
    THEN IF "result" \in DOMAIN fields
         THEN LET payload == DeserializeResponseParams(fields.result) IN
              IF payload.ok
              THEN Ok([id |-> DeserializeId(fields).value,
                       payload |-> Ok(payload.value)])
              ELSE Err
         ELSE LET error == DeserializeError(fields.error) IN
              IF error.ok
              THEN Ok([id |-> DeserializeId(fields).value,
                       payload |-> [ok |-> FALSE, error |-> error.value]])
              ELSE Err
    ELSE Err

AllOk(results) == \A i \in 1..Len(results) : results[i].ok

\* decode, the request arm: match method { ... }
decode_request(request) ==
    IF ~request.params.some THEN DecodeError
    ELSE
    LET params == request.params.value
        id == IdOrZero(request.id)
        str(i) == unwrap_str_value(params[i])
    IN  CASE request.method = <<"mining.subscribe">> ->
               IF Len(params) # 3 THEN DecodeError
               ELSE IF ~str(1).ok \/ ~str(2).ok \/ ~unwrap_option_str(params[3]).ok
               THEN DecodeError
               ELSE Frame(StratumSubscribe(id, str(1).value, str(2).value,
                                           unwrap_option_str(params[3]).value))
          [] request.method = <<"mining.authorize">> ->
               IF Len(params) # 2 THEN DecodeError
               ELSE IF ~str(1).ok \/ ~str(2).ok THEN DecodeError
               ELSE Frame(StratumAuthorize(id, str(1).value, str(2).value))
          [] request.method = <<"mining.set_target">> ->
               IF Len(params) # 1 THEN DecodeError
               ELSE IF ~unwrap_u64_value(params[1]).ok THEN DecodeError
               ELSE Frame(StratumSetTarget(unwrap_u64_value(params[1]).value))
          [] request.method = <<"mining.notify">> ->
               IF Len(params) # 4 THEN DecodeError
               ELSE IF \/ ~str(1).ok \/ ~str(2).ok
                       \/ ~unwrap_option_str(params[3]).ok
                       \/ ~unwrap_bool_value(params[4]).ok
               THEN DecodeError
               ELSE Frame(StratumNotify(str(1).value, str(2).value,
                                        unwrap_option_str(params[3]).value,
                                        unwrap_bool_value(params[4]).value))
          [] request.method = <<"mining.submit">> ->
               IF Len(params) # 5 THEN DecodeError
               ELSE IF ~AllOk([i \in 1..5 |-> str(i)]) THEN DecodeError
               ELSE Frame(StratumSubmit(id, str(1).value, str(2).value, str(3).value,
                                        str(4).value, str(5).value))
          [] OTHER -> DecodeError

\* decode, the response arm
decode_response(response) ==
    IF response.payload.ok
    THEN Frame(StratumResponse(IdOrZero(response.id), OptSome(response.payload.value),
                               OptNone))
    ELSE Frame(StratumResponse(IdOrZero(response.id), OptNone,
                               OptSome(response.payload.error)))

\* impl Decoder for StratumCodec, on one complete frame.
decode(src) ==
    IF src.size > MAX_LENGTH THEN DecodeError
    ELSE IF src.json.kind = "garbage" THEN DecodeError
    ELSE IF src.json.kind # "object" THEN DecodeError
    ELSE IF "method" \in DOMAIN src.json.fields
    THEN LET request == DeserializeRequest(src.json.fields) IN
         IF request.ok THEN decode_request(request.value) ELSE DecodeError
    ELSE LET response == DeserializeResponse(src.json.fields) IN
         IF response.ok THEN decode_response(response.value) ELSE DecodeError

(***************************************************************************)
(* Inputs of the codec                                                     *)
(***************************************************************************)
S_Agent == <<"miner", "/", "1">>
S_Session == <<"session">>
S_Worker == <<"aleo1prover">>
S_Password == <<"x">>
S_Challenge == <<"challenge">>
S_Text == <<"a">>

CodecIds == {IdNum(1), IdStr(S_Text)}
OptionStrings == {OptNone, OptSome(S_Session)}
BoxedElements ==
    {BoxString(S_Text), BoxOptionU64(OptSome(1)), BoxOptionU64(OptNone),
     BoxOptionString(OptSome(S_Text)), BoxOptionString(OptNone)}
BoxedArrays ==
    {<<>>} \cup {<<a>> : a \in BoxedElements}
    \cup {<<a, b>> : a \in BoxedElements, b \in BoxedElements}
Results ==
    {OptNone, OptSome(ResponseParamsNull), OptSome(ResponseParamsBool(TRUE)),
     OptSome(ResponseParamsBool(FALSE))}
    \cup {OptSome(ResponseParamsArray(v)) : v \in BoxedArrays}

\* Well-formed messages of the six variants.
WellFormedMessages ==
    {StratumSubscribe(id, S_Agent, V_2_0_0, o) : id \in CodecIds, o \in OptionStrings}
    \cup {StratumAuthorize(id, S_Worker, S_Password) : id \in CodecIds}
    \cup {StratumSetTarget(t) : t \in {0, MaxU64}}
    \cup {StratumNotify(Hex_Job1, S_Challenge, o, b) : o \in OptionStrings, b \in BOOLEAN}
    \cup {StratumSubmit(id, S_Worker, Hex_Job1, Hex_Nonce5, Hex_Commitment, Hex_Proof) :
             id \in CodecIds}
    \cup {StratumResponse(id, r, OptNone) : id \in CodecIds, r \in Results}
    \cup {StratumResponse(id, OptNone, OptSome(RpcError(-1, S_Text))) : id \in CodecIds}

\* JSON values a peer may put into an array or a parameter.
JsonElements ==
    {JNull, JStr(S_Text), JNum(1), JNum(-1), JBool(TRUE), JArr(<<JNum(1)>>),
     JObj([code |-> JNum(1)])}
JsonShortArrays == {<<>>} \cup {<<a>> : a \in JsonElements}
JsonArrays == JsonShortArrays \cup {<<a, b>> : a \in JsonElements, b \in JsonElements}

ResponseJson(result) == JObj([jsonrpc |-> V2, result |-> result, id |-> JNum(1)])
RequestWithoutParams(method) ==
    JObj([jsonrpc |-> V2, method |-> MethodName(method), id |-> JNum(1)])
Methods ==
    {"mining.subscribe", "mining.authorize", "mining.set_target", "mining.notify",
     "mining.submit"}

\* The JSON texts a peer may send.
PeerJson ==
    {encode(m) : m \in WellFormedMessages}
    \cup {NotJson, JNull, JNum(1), JStr(S_Text), JArr(<<>>)}
    \cup {ResponseJson(JArr(a)) : a \in JsonArrays}
    \cup {ResponseJson(r) : r \in {JObj([code |-> JNum(1)]), JStr(S_Text), JNum(1)}}
    \cup {JObj([jsonrpc |-> V2, id |-> JNum(1)])}
    \cup {RequestWithoutParams(m) : m \in Methods}
    \cup {RequestJson("mining.unknown", <<>>, OptSome(IdNum(1)))}
    \cup {RequestJson(m, a, OptSome(IdNum(1))) : m \in Methods, a \in JsonShortArrays}
    \cup {RequestJson("mining.authorize", <<a, b>>, OptSome(IdNum(1))) :
             a \in JsonElements, b \in JsonElements}
    \cup {RequestJson("mining.submit",
                      <<JStr(S_Worker), JStr(Hex_Job1), JStr(Hex_Nonce5),
                        JStr(Hex_Commitment), p>>, OptNone) : p \in JsonElements}
    \cup {RequestJson("mining.notify",
                      <<JStr(Hex_Job1), JStr(S_Challenge), a, b>>, OptNone) :
             a \in JsonElements, b \in JsonElements}
    \cup {RequestJson("mining.subscribe", <<JStr(S_Agent), a, b>>, OptNone) :
             a \in JsonElements, b \in JsonElements}

FrameSizes == {MAX_LENGTH, MAX_LENGTH + 1}
FittingSizes == {64, MAX_LENGTH}
RawFrames == {RawFrame(size, json) : size \in FrameSizes, json \in PeerJson}

(***************************************************************************)
(* The codec on its own: encode followed by decode, and decode of any frame. *)
(***************************************************************************)
CodecRoundTrip ==
    /\ \E m \in WellFormedMessages, size \in FittingSizes :
          /\ codec_op' = "round_trip"
          /\ codec_in' = m
          /\ codec_out' = decode(RawFrame(size, encode(m)))
    /\ UNCHANGED <<acct_vars, conn_vars, payout_vars, api_vars, hub_vars, save_vars>>

CodecDecode ==
    /\ \E src \in RawFrames :
          /\ codec_op' = "decode"
          /\ codec_in' = src
          /\ codec_out' = decode(src)
    /\ UNCHANGED <<acct_vars, conn_vars, payout_vars, api_vars, hub_vars, save_vars>>

NextCodec == CodecRoundTrip \/ CodecDecode

SpecCodec == Init /\ [][NextCodec]_vars

\* Two boxed elements are the same element when they serialize alike: the
\* concrete type behind dyn BoxedType is erased.
SameResult(a, b) ==
    /\ a.some = b.some
    /\ a.some => /\ a.value.variant = b.value.variant
                 /\ ResponseParamsJson(a.value) = ResponseParamsJson(b.value)

SameMessage(a, b) ==
    IF a.method = "response" /\ b.method = "response"
    THEN a.id = b.id /\ a.error = b.error /\ SameResult(a.result, b.result)
    ELSE a = b

\* C24: for every well-formed StratumMessage m whose encoding fits in one
\* frame, decode(encode(m)) yields a message equal to m.
C24_DecodeEncodeIsIdentity ==
    codec_op = "round_trip"
        => codec_out.kind = "frame" /\ SameMessage(codec_out.msg, codec_in)

\* A frame that fits and holds a JSON-RPC response with a result.
ResponseWithResult(src) ==
    /\ src.size <= MAX_LENGTH
    /\ src.json.kind = "object"
    /\ DOMAIN src.json.fields = {"jsonrpc", "result", "id"}

KeptKind(v) == v.kind \in {"null", "string", "number"}

\* C25: decoding a Response whose result is a JSON array keeps every null,
\* string and integer element unchanged and in order (re-encoding yields the
\* same JSON elements) and drops the elements of the other kinds; a result that
\* is an object, a string or a number is a decode error.
C25_ArrayElementsSurvive ==
    (codec_op = "decode" /\ ResponseWithResult(codec_in))
        => LET result == codec_in.json.fields.result IN
           /\ result.kind = "array"
              => /\ codec_out.kind = "frame"
                 /\ codec_out.msg.result.some
                 /\ ResponseParamsJson(codec_out.msg.result.value)
                       = JArr(SelectSeq(result.items, KeptKind))
           /\ result.kind \in {"object", "string", "number"}
              => codec_out = DecodeError

(***************************************************************************)
(* The codec under the connection: in the Active loop framed.next() is the   *)
(* decoding of the frame the peer sent.                                      *)
(***************************************************************************)
ActiveInboundFrame ==
    /\ pc = "active"
    /\ Len(to_hub) < MaxHubMessages
    /\ \E src \in RawFrames :
          LET res == decode(src)
              r == on_inbound(res, PeerAddr)
          IN  /\ codec_op' = "wire"
              /\ codec_in' = src
              /\ codec_out' = res
              /\ Receive(res)
              /\ last_received' = IF res.kind = "frame" THEN now ELSE last_received
              /\ CASE r.next = "continue" -> to_hub' = to_hub \o r.hub /\ UNCHANGED pc
                   [] r.next = "break" -> Disconnect
                   [] r.next = "panic" -> pc' = "panicked" /\ UNCHANGED to_hub
    /\ UNCHANGED <<to_peer, outbound, hub_holds_sender, now, phase_start>>
    /\ UNCHANGED <<acct_vars, payout_vars, api_vars, hub_vars, save_vars>>

NextWire == RunHandshake \/ RunAuthorize \/ ActiveInboundFrame

SpecWire == Init /\ [][NextWire]_vars

\* The parameters each method takes: per position, the JSON kinds accepted.
ParamKinds(method) ==
    CASE method = <<"mining.subscribe">> -> <<{"string"}, {"string"}, {"string", "null"}>>
      [] method = <<"mining.authorize">> -> <<{"string"}, {"string"}>>
      [] method = <<"mining.set_target">> -> <<{"u64"}>>
      [] method = <<"mining.notify">> ->
            <<{"string"}, {"string"}, {"string", "null"}, {"bool"}>>
      [] method = <<"mining.submit">> ->
            <<{"string"}, {"string"}, {"string"}, {"string"}, {"string"}>>
      [] OTHER -> <<>>

KindOf(v) == IF v.kind = "number" /\ v.n \in 0..MaxU64 THEN "u64" ELSE v.kind

HasMethod(src) == src.json.kind = "object" /\ "method" \in DOMAIN src.json.fields

\* The frames the decoder has to refuse: oversized, not JSON, not an object, an
\* unknown method, no params, a wrong parameter count or a wrong parameter type.
Malformed(src) ==
    \/ src.size > MAX_LENGTH
    \/ src.json.kind # "object"
    \/ /\ HasMethod(src)
       /\ LET fields == src.json.fields IN
          \/ fields.method.kind # "string"
          \/ fields.method.s \notin {MethodName(m).s : m \in Methods}
          \/ "params" \notin DOMAIN fields
          \/ fields.params.kind # "array"
          \/ Len(fields.params.items) # Len(ParamKinds(fields.method.s))
          \/ \E i \in 1..Len(fields.params.items) :
                KindOf(fields.params.items[i]) \notin ParamKinds(fields.method.s)[i]

\* C26: the decoder yields one StratumMessage or one decode error per frame: an
\* object with a method field is decoded as a request and otherwise as a
\* response; an oversized frame, invalid JSON, a non-object, an unknown method,
\* missing params, a wrong parameter count or type yield a decode error; and on
\* a decode error the connection is closed and only ProverDisconnected goes to
\* the hub.
C26_OneResultPerFrameErrorsClose ==
    [][(pc = "active" /\ received' # received)
          => /\ codec_op' = "wire"
             /\ received' = Append(received, codec_out')
             /\ codec_out'.kind \in {"frame", "error"}
             /\ Malformed(codec_in') => codec_out' = DecodeError
             /\ codec_out'.kind = "frame"
                   => (HasMethod(codec_in') <=> codec_out'.msg.method # "response")
             /\ codec_out' = DecodeError
                   => /\ pc' = "closed"
                      /\ to_hub' = Append(to_hub, ProverDisconnected(PeerAddr))]_vars

\* A submit with a parameter of the wrong type has closed the connection.
C26_WitnessWrongParamTypeCloses ==
    /\ codec_op = "wire"
    /\ codec_in.size <= MAX_LENGTH
    /\ HasMethod(codec_in)
    /\ codec_in.json.fields.method = MethodName("mining.submit")
    /\ "params" \in DOMAIN codec_in.json.fields
    /\ Len(codec_in.json.fields.params.items) = 5
    /\ Malformed(codec_in)
    /\ codec_out = DecodeError
    /\ pc = "closed"
    /\ to_hub[Len(to_hub)] = ProverDisconnected(PeerAddr)
    /\ \A i \in 1..Len(to_hub) : to_hub[i].type # "ProverSubmit"

(***************************************************************************)
(* The HTTP API (src/src/api.rs): the warp routes and their handlers.       *)
(* A request is its method, its path segments and the peer's IPv4 address.  *)
(* A reply is a status and a JSON body, here the record of the body's keys.  *)
(***************************************************************************)
HttpMethods == {"GET", "HEAD", "POST"}
Paths ==
    {<<"current_round">>, <<"admin", "current_round">>, <<"stats">>,
     <<"stats", "aleo1prover">>, <<"stats", "not-an-address">>, <<"admin">>}
Peers == {<<127, 8, 8, 8>>, <<198, 51, 100, 7>>, <<10, 0, 0, 127>>}
Requests ==
    {[method |-> m, path |-> p, peer |-> a] : m \in HttpMethods, p \in Paths, a \in Peers}

HttpReply(status, body) == [done |-> TRUE, status |-> status, body |-> body]
OK == 200
BAD_REQUEST == 400
NOT_FOUND == 404
METHOD_NOT_ALLOWED == 405

\* Ipv4Addr::is_loopback: 127.0.0.0/8
is_loopback(ip) == ip[1] = 127

\* The endpoint a request is routed to: get().or(head()) first, then the
\* endpoints in the order of the or-chain.  path("x") matches a first segment,
\* path!(..) the whole path.
route(req) ==
    IF req.method \notin {"GET", "HEAD"} THEN "method_not_allowed"
    ELSE IF Len(req.path) >= 1 /\ req.path[1] = "current_round" THEN "current_round"
    ELSE IF Len(req.path) = 2 /\ req.path[1] = "stats" THEN "address_stats"
    ELSE IF Len(req.path) >= 1 /\ req.path[1] = "stats" THEN "pool_stats"
    ELSE IF req.path = <<"admin", "current_round">> THEN "admin_current_round"
    ELSE "not_found"

\* async fn current_round: n, current_n and provers of the data
current_round(data) ==
    HttpReply(OK, [n |-> data.n, current_n |-> data.current_n, provers |-> data.provers])

\* A plausible slip: the admin handler serves every peer.
admin_current_round_any_peer(addr, data) ==
    HttpReply(OK, [n |-> data.n, current_n |-> data.current_n,
                   provers |-> data.provers, shares |-> data.shares])

\* async fn admin_current_round; data is what accounting.current_round()
\* returns.
admin_current_round(addr, data) ==
    IF is_loopback(addr)
    THEN HttpReply(OK, [n |-> data.n, current_n |-> data.current_n,
                        provers |-> data.provers, shares |-> data.shares])
    ELSE HttpReply(METHOD_NOT_ALLOWED, [text |-> "Method Not Allowed"])

\* async fn pool_stats; stats is what the Server reports
pool_stats(stats) ==
    HttpReply(OK, [online_addresses |-> stats.addresses,
                   online_provers |-> stats.provers, speed |-> stats.speed])

\* async fn address_stats
address_stats(address, stats) ==
    IF address \in ValidAddresses
    THEN HttpReply(OK, [online_provers |-> stats.provers, speed |-> stats.speed])
    ELSE HttpReply(BAD_REQUEST, [error |-> "invalid address"])

ServerStats == {[addresses |-> 1, provers |-> 2, speed |-> 0]}

\* Does the handler of this request call accounting.current_round()?
CallsCurrentRound(req) ==
    \/ route(req) = "current_round"
    \/ route(req) = "admin_current_round" /\ is_loopback(req.peer)

\* Accounting::current_round as one step: the clone, the cached pair or a fresh
\* aggregation, the JSON value.
current_round_value(s, c, t, checks) ==
    LET cache == cache_get(c, t)
        fresh == pplns_to_provers_shares(clone(s), checks)
        result == IF cache.some THEN cache.value
                  ELSE [num_provers |-> fresh.num_provers, shares |-> fresh.shares]
    IN  [panicked |-> ~cache.some /\ fresh.panicked,
         cache |-> IF cache.some THEN c ELSE cache_set(c, t, result),
         value |-> [served |-> TRUE, n |-> s.n, current_n |-> s.current_n,
                    provers |-> result.num_provers, shares |-> result.shares,
                    snapshot |-> clone(s)]]

\* One request, from routing to the reply.
ApiRequest ==
    /\ \E req \in Requests, stats \in ServerStats :
          /\ api_request' = req
          /\ IF CallsCurrentRound(req)
             THEN LET r == current_round_value(pplns, round_cache, now, overflow_checks) IN
                  /\ round_calls < MaxRounds
                  /\ round_calls' = round_calls + 1
                  /\ IF r.panicked
                     THEN /\ api_reply' = NoHttpReply
                          /\ UNCHANGED <<round_cache, round_reply>>
                     ELSE /\ round_cache' = r.cache
                          /\ round_reply' = r.value
                          /\ api_reply' =
                               IF route(req) = "current_round"
                               THEN current_round(r.value)
                               ELSE admin_current_round(req.peer, r.value)
             ELSE /\ api_reply' =
                       CASE route(req) = "method_not_allowed" ->
                               HttpReply(METHOD_NOT_ALLOWED, [text |-> "rejected"])
                         [] route(req) = "not_found" ->
                               HttpReply(NOT_FOUND, [text |-> "rejected"])
                         [] route(req) = "admin_current_round" ->
                               admin_current_round(req.peer, round_reply)
                         [] route(req) = "pool_stats" -> pool_stats(stats)
                         [] route(req) = "address_stats" ->
                               address_stats(req.path[2], stats)
                  /\ UNCHANGED <<round_calls, round_cache, round_reply>>
    /\ UNCHANGED <<pplns, overflow_checks, consumer, last_op, channel, rx_closed,
                   accepted, handled, disk, exit_lock, final_save, solutions, waiter,
                   saver, round_pc, round_snapshot>>
    /\ UNCHANGED <<conn_vars, payout_vars, codec_vars, hub_vars, save_vars>>

\* The shares credited while the API is explored: (A, 1) and (B, 2), in a
\* window of 3.
ApiAddShare ==
    /\ SharesAddShare
    /\ pplns'.queue # <<>>
    /\ pplns'.queue[Len(pplns'.queue)] \in {Share(1, "A"), Share(2, "B")}

ApiSetN ==
    /\ SharesSetN
    /\ pplns'.n = 3

NextApi ==
    \/ ApiAddShare
    \/ ApiSetN
    \/ ApiRequest

SpecApi == Init /\ [][NextApi]_vars

HasShares(reply) == "shares" \in DOMAIN reply.body
AdminPath == <<"admin", "current_round">>
GetOrHead(req) == req.method \in {"GET", "HEAD"}
LoopbackPeer(req) == req.peer[1] = 127

\* C27: the per-address shares map appears in a reply only for GET or HEAD
\* /admin/current_round from a loopback peer, with status 200; that route from
\* any other peer is answered 405 without share data; and the reply of the
\* public /current_round holds n, current_n and provers only.
C27_SharesOnlyForLoopbackAdmin ==
    api_reply.done
        => /\ HasShares(api_reply)
              => /\ GetOrHead(api_request)
                 /\ api_request.path = AdminPath
                 /\ LoopbackPeer(api_request)
                 /\ api_reply.status = 200
           /\ (api_request.path = AdminPath /\ ~LoopbackPeer(api_request))
              => api_reply.status = 405 /\ ~HasShares(api_reply)
           /\ (GetOrHead(api_request) /\ api_request.path = <<"current_round">>)
              => DOMAIN api_reply.body = {"n", "current_n", "provers"}

\* The admin route has served a loopback peer a share map with an entry.
C27_WitnessLoopbackAdminServed ==
    /\ api_reply.done
    /\ api_request.path = AdminPath
    /\ api_request.peer = <<127, 8, 8, 8>>
    /\ api_reply.status = 200
    /\ HasShares(api_reply)
    /\ api_reply.body.shares # << >>

(***************************************************************************)
(* The server hub.  It takes the ServerMessages the connection sends, in     *)
(* order; a ProverSubmit it has taken is carried on by a task of its own, so  *)
(* the submits of one epoch meet at the NonceSeen set concurrently.          *)
(***************************************************************************)
MaxEpoch == 2
ShareValues == {1}

\* flurry HashSet: pin().insert(value) adds the value and tells whether it was
\* absent, in one atomic step.
nonce_insert_blind(seen, nonce) == [seen |-> seen \cup {nonce}, inserted |-> TRUE]

nonce_insert(seen, nonce) ==
    [seen |-> seen \cup {nonce}, inserted |-> nonce \notin seen]

\* ProverAuthenticated(peer, address, outbound): insert the registration.
prover_authenticated(reg, peer, address) == [reg EXCEPT ![peer] = address]

\* A slip: a disconnect of a peer without registration empties the registry.
prover_disconnected_or_reset(reg, peer) ==
    IF reg[peer] = "" THEN [p \in DOMAIN reg |-> ""] ELSE [reg EXCEPT ![peer] = ""]

\* ProverDisconnected(peer): remove the registration.
prover_disconnected(reg, peer) == [reg EXCEPT ![peer] = ""]

\* A slip: a stale submit is carried on to the NonceSeen set.
stale_never(epoch, current) == FALSE

\* Is a submit for this epoch stale?
stale(epoch, current) == epoch # current

HubTask(msg, address, at, reply) ==
    [id |-> msg.id, peer |-> msg.peer, address |-> address, epoch |-> msg.epoch,
     nonce |-> msg.nonce, at |-> at, inserted |-> "pending", reply |-> reply,
     why |-> IF reply = "false" THEN "stale" ELSE ""]

HubReply(id, result) == Response(id, ResultBool(result))

\* Replies go to the outbound channel of the registration while the
\* connection is there to take them.
SendReply(id, result) ==
    outbound' = IF pc = "active" THEN Append(outbound, HubReply(id, result))
                ELSE outbound

\* The hub takes the next ServerMessage.
HubReceive ==
    /\ hub_handled < Len(to_hub)
    /\ hub_handled' = hub_handled + 1
    /\ LET msg == to_hub[hub_handled + 1] IN
       CASE msg.type = "ProverAuthenticated" ->
               /\ registry' = prover_authenticated(registry, msg.peer, msg.address)
               /\ outbound' = IF pc = "active" THEN Append(outbound, Notify) ELSE outbound
               /\ UNCHANGED hub_tasks
         [] msg.type = "ProverDisconnected" ->
               /\ registry' = prover_disconnected(registry, msg.peer)
               /\ UNCHANGED <<outbound, hub_tasks>>
         [] msg.type = "ProverSubmit" ->
               /\ UNCHANGED registry
               /\ IF registry[msg.peer] = ""
                  THEN UNCHANGED <<outbound, hub_tasks>>
                  ELSE IF stale(msg.epoch, hub_epoch)
                  THEN /\ hub_tasks' = Append(hub_tasks,
                                              HubTask(msg, registry[msg.peer], "done", "false"))
                       /\ SendReply(msg.id, FALSE)
                  ELSE /\ hub_tasks' = Append(hub_tasks,
                                              HubTask(msg, registry[msg.peer], "insert", "none"))
                       /\ UNCHANGED outbound
    /\ UNCHANGED <<nonce_seen, hub_epoch, hub_emitted>>
    /\ UNCHANGED <<pc, to_peer, to_hub, hub_holds_sender, now, phase_start,
                   last_received, received>>
    /\ UNCHANGED <<acct_vars, payout_vars, codec_vars, api_vars, save_vars>>

\* A task consults NonceSeen: a duplicate is answered false.
HubInsert ==
    /\ \E i \in 1..Len(hub_tasks) :
          /\ hub_tasks[i].at = "insert"
          /\ LET r == nonce_insert(nonce_seen, hub_tasks[i].nonce) IN
             /\ nonce_seen' = r.seen
             /\ IF r.inserted
                THEN /\ hub_tasks' = [hub_tasks EXCEPT ![i].at = "score",
                                                       ![i].inserted = "true"]
                     /\ UNCHANGED outbound
                ELSE /\ hub_tasks' = [hub_tasks EXCEPT ![i].at = "done",
                                                       ![i].inserted = "false",
                                                       ![i].reply = "false",
                                                       ![i].why = "duplicate"]
                     /\ SendReply(hub_tasks[i].id, FALSE)
    /\ UNCHANGED <<registry, hub_epoch, hub_handled, hub_emitted>>
    /\ UNCHANGED <<pc, to_peer, to_hub, hub_holds_sender, now, phase_start,
                   last_received, received>>
    /\ UNCHANGED <<acct_vars, payout_vars, codec_vars, api_vars, save_vars>>

HubNewShare(i, address, value) ==
    [type |-> "NewShare", task |-> i, address |-> address, value |-> value]
HubNewSolution(i) == [type |-> "NewSolution", task |-> i, address |-> "", value |-> 0]

\* A task scores the solution: a valid one is credited with NewShare, and with
\* NewSolution too when it meets the on-chain target, and answered true; an
\* invalid one is answered false.
HubCredit ==
    /\ \E i \in 1..Len(hub_tasks), valid \in BOOLEAN, meets \in BOOLEAN,
          value \in ShareValues :
          /\ hub_tasks[i].at = "score"
          /\ IF valid
             THEN /\ hub_emitted' =
                        hub_emitted
                        \o <<HubNewShare(i, hub_tasks[i].address, value)>>
                        \o (IF meets THEN <<HubNewSolution(i)>> ELSE <<>>)
                  /\ hub_tasks' = [hub_tasks EXCEPT ![i].at = "done", ![i].reply = "true"]
                  /\ SendReply(hub_tasks[i].id, TRUE)
             ELSE /\ hub_tasks' = [hub_tasks EXCEPT ![i].at = "done",
                                                    ![i].reply = "false",
                                                    ![i].why = "invalid"]
                  /\ SendReply(hub_tasks[i].id, FALSE)
                  /\ UNCHANGED hub_emitted
    /\ UNCHANGED <<registry, nonce_seen, hub_epoch, hub_handled>>
    /\ UNCHANGED <<pc, to_peer, to_hub, hub_holds_sender, now, phase_start,
                   last_received, received>>
    /\ UNCHANGED <<acct_vars, payout_vars, codec_vars, api_vars, save_vars>>

\* A new job opens the next epoch.
HubNewEpoch ==
    /\ hub_epoch < MaxEpoch
    /\ hub_epoch' = hub_epoch + 1
    /\ UNCHANGED <<registry, nonce_seen, hub_handled, hub_tasks, hub_emitted>>
    /\ UNCHANGED <<acct_vars, conn_vars, payout_vars, codec_vars, api_vars, save_vars>>

\* The peer of this specification: it subscribes and authorizes well or sends
\* a broken frame, then submits well-formed solutions or leaves.
HubPeerInputs ==
    {Frame(Subscribe(1, "miner/1.0", V_2_0_0)), Frame(Authorize(1, "aleo1prover")),
     Frame(Submit(1, Hex_Job1, Hex_Nonce5, Hex_Commitment, Hex_Proof)),
     Frame(Submit(7, Hex_Job1, Hex_Nonce5, Hex_Commitment, Hex_Proof)),
     DecodeError, Eof}

LastReceivedIn(inputs) ==
    received' # received => received'[Len(received')] \in inputs

HubRunHandshake == RunHandshake /\ LastReceivedIn(HubPeerInputs)
HubRunAuthorize == RunAuthorize /\ LastReceivedIn(HubPeerInputs)
HubActiveInbound == ActiveInbound /\ LastReceivedIn(HubPeerInputs)

NextHub ==
    \/ HubRunHandshake
    \/ HubRunAuthorize
    \/ HubActiveInbound
    \/ HubReceive
    \/ HubInsert
    \/ HubCredit
    \/ HubNewEpoch

SpecHub == Init /\ [][NextHub]_vars

TaskIds == 1..Len(hub_tasks)
SharesOf(log, i) ==
    {k \in 1..Len(log) : log[k].task = i /\ log[k].type = "NewShare"}
EmissionsOf(log, i) == {k \in 1..Len(log) : log[k].task = i}

\* The tasks that have completed their insert of this nonce.
InsertedBefore(nonce) ==
    {j \in TaskIds : hub_tasks[j].nonce = nonce /\ hub_tasks[j].inserted # "pending"}

C28_AtMostOneTrue ==
    \A i \in TaskIds :
        /\ hub_tasks[i].inserted # "pending"
              => Cardinality({j \in InsertedBefore(hub_tasks[i].nonce) :
                                 hub_tasks[j].inserted = "true"}) = 1
        /\ hub_tasks[i].inserted = "false"
              => /\ hub_tasks[i].reply = "false"
                 /\ EmissionsOf(hub_emitted, i) = {}

C28_InsertStep ==
    \A i \in TaskIds :
        (hub_tasks[i].inserted = "pending" /\ hub_tasks'[i].inserted # "pending")
            => /\ hub_tasks'[i].inserted = "true"
                     <=> InsertedBefore(hub_tasks[i].nonce) = {}
               /\ (hub_tasks'[i].inserted = "false" /\ pc = "active")
                     => outbound' = Append(outbound, HubReply(hub_tasks[i].id, FALSE))

\* C28: NonceSeen.insert(nonce) returns true if and only if it is the first
\* insertion of that nonce, also when several tasks insert concurrently: of the
\* inserts of one nonce exactly one returns true; a nonce submitted a second
\* time is answered Response(id, false).
C28_InsertTrueIffFirst == []C28_AtMostOneTrue /\ [][C28_InsertStep]_vars

\* Two submits of one nonce were in flight together: the one taken second
\* inserted first, and the one taken first was answered false.
C28_WitnessSecondTaskWonInsert ==
    /\ Len(hub_tasks) = 2
    /\ hub_tasks[1].nonce = hub_tasks[2].nonce
    /\ hub_tasks[2].inserted = "true"
    /\ hub_tasks[1].inserted = "false"
    /\ hub_tasks[1].reply = "false"

C29_Replies ==
    \A i \in TaskIds :
        /\ hub_tasks[i].reply = "false" => EmissionsOf(hub_emitted, i) = {}
        /\ hub_tasks[i].reply = "true"
              => /\ Cardinality(SharesOf(hub_emitted, i)) = 1
                 /\ \A k \in SharesOf(hub_emitted, i) :
                       hub_emitted[k].address = hub_tasks[i].address

\* The hub takes a ProverSubmit of a registered peer for another epoch.
TakesStaleSubmit ==
    /\ hub_handled' = hub_handled + 1
    /\ to_hub[hub_handled + 1].type = "ProverSubmit"
    /\ registry[to_hub[hub_handled + 1].peer] # ""
    /\ to_hub[hub_handled + 1].epoch # hub_epoch

\* Task i finds its nonce in the set.
FindsDuplicate(i) ==
    /\ hub_tasks[i].inserted = "pending"
    /\ hub_tasks'[i].inserted # "pending"
    /\ hub_tasks[i].nonce \in nonce_seen

AnsweredFalse(i, id) ==
    /\ hub_tasks'[i].reply = "false"
    /\ hub_tasks'[i].at = "done"
    /\ pc = "active" => outbound' = Append(outbound, HubReply(id, FALSE))
    /\ hub_emitted' = hub_emitted
    /\ registry' = registry

C29_Step ==
    /\ TakesStaleSubmit
          => /\ Len(hub_tasks') = Len(hub_tasks) + 1
             /\ AnsweredFalse(Len(hub_tasks'), to_hub[hub_handled + 1].id)
    /\ \A i \in TaskIds : FindsDuplicate(i) => AnsweredFalse(i, hub_tasks[i].id)

\* C29: for a ProverSubmit with a stale epoch or a nonce already seen the hub
\* replies Response(id, false), emits no NewShare and no NewSolution and keeps
\* the registration; Response(id, true) is sent only for a submit for which
\* exactly one NewShare(address, value) was emitted.
C29_FalseWithoutCreditTrueWithOneShare == []C29_Replies /\ [][C29_Step]_vars

\* One submit was stale, another was credited, and the peer is registered.
C29_WitnessStaleAndCredited ==
    /\ \E i \in TaskIds : hub_tasks[i].why = "stale" /\ hub_tasks[i].reply = "false"
    /\ \E i \in TaskIds : hub_tasks[i].reply = "true"
    /\ registry[PeerAddr] # ""

\* The ServerMessages of a peer the hub has taken so far.
Taken(type, peer) ==
    {k \in 1..hub_handled : to_hub[k].type = type /\ to_hub[k].peer = peer}

MaxSaveEvents == 4        \* events accepted on the channel in one run

SaveEvents == {SetN(1), NewShare("A", 1), NewShare("A", MaxU64), Exit}

SaveSend ==
    /\ ~rx_closed
    /\ Len(channel) < ChannelCapacity
    /\ Len(accepted) < MaxSaveEvents
    /\ \E e \in SaveEvents :
          /\ channel' = Append(channel, e)
          /\ accepted' = Append(accepted, e)
    /\ UNCHANGED <<pplns, overflow_checks, consumer, last_op, rx_closed, handled,
                   disk, exit_lock, final_save, solutions, waiter>>
    /\ UNCHANGED <<saver, round_vars>>
    /\ UNCHANGED <<conn_vars, ext_vars>>

\* pplns.write().await is granted once no read guard is held.
SaveHandleNewShare == saving = {} /\ HandleNewShare
SaveHandleSetN == saving = {} /\ HandleSetN

\* A plausible slip: the flag is stored before the save.
exit_arm_flag_first(step, flag) == IF step = "close" THEN TRUE ELSE flag

\* The value of exit_lock after each step of the Exit arm: receiver.close(),
\* save() returning, exit_lock.store(true).
exit_arm_flag(step, flag) == IF step = "store" THEN TRUE ELSE flag

\* Exit => receiver.close(); pplns.read().await: save() begins.
ExitBegin ==
    /\ Receives("Exit")
    /\ rx_closed' = TRUE
    /\ consumer' = "saving"
    /\ saving' = saving \cup {"exit"}
    /\ exit_lock' = exit_arm_flag("close", exit_lock)
    /\ UNCHANGED <<pplns, overflow_checks, last_op, accepted, disk, final_save,
                   solutions, waiter, saver, round_vars>>
    /\ UNCHANGED <<conn_vars, payout_vars, codec_vars, api_vars, hub_vars>>

\* let _ = ...save(): save_file returns, with or without an error.
ExitEnd ==
    /\ consumer = "saving"
    /\ \E out \in SaveOutcomes(pplns) :
          /\ disk' = out.file
          /\ final_save' = [done |-> TRUE, applied |-> handled, ok |-> out.ok,
                            state |-> pplns]
    /\ consumer' = "storing"
    /\ saving' = saving \ {"exit"}
    /\ exit_lock' = exit_arm_flag("save", exit_lock)
    /\ UNCHANGED <<pplns, overflow_checks, last_op, channel, rx_closed, accepted,
                   handled, solutions, waiter, saver, round_vars>>
    /\ UNCHANGED <<conn_vars, payout_vars, codec_vars, api_vars, hub_vars>>

\* exit_lock.store(true, SeqCst)
ExitStore ==
    /\ consumer = "storing"
    /\ exit_lock' = exit_arm_flag("store", exit_lock)
    /\ consumer' = "running"
    /\ UNCHANGED <<pplns, overflow_checks, last_op, channel, rx_closed, accepted,
                   handled, disk, final_save, solutions, waiter, saver, round_vars>>
    /\ UNCHANGED <<conn_vars, ext_vars>>

\* sleep(60 s) is over; pplns.read().await: save() begins.
PeriodicBegin ==
    /\ saver = "sleeping"
    /\ saver' = "saving"
    /\ saving' = saving \cup {"periodic"}
    /\ UNCHANGED <<pplns, overflow_checks, consumer, last_op, channel, rx_closed,
                   accepted, handled, disk, exit_lock, final_save, solutions,
                   waiter, round_vars>>
    /\ UNCHANGED <<conn_vars, payout_vars, codec_vars, api_vars, hub_vars>>

\* save_file returns in the periodic task.
PeriodicEnd ==
    /\ saver = "saving"
    /\ \E out \in SaveOutcomes(pplns) :
          /\ disk' = out.file
          /\ saver' = periodic_save(out)
    /\ saving' = saving \ {"periodic"}
    /\ UNCHANGED <<pplns, overflow_checks, consumer, last_op, channel, rx_closed,
                   accepted, handled, exit_lock, final_save, solutions, waiter,
                   round_vars>>
    /\ UNCHANGED <<conn_vars, payout_vars, codec_vars, api_vars, hub_vars>>

NextSave ==
    \/ SaveSend
    \/ SaveHandleNewShare
    \/ SaveHandleSetN
    \/ ExitBegin
    \/ ExitEnd
    \/ ExitStore
    \/ ConsumerFinish
    \/ PeriodicBegin
    \/ PeriodicEnd
    \/ WaitForExitReturns

SpecSave == Init /\ [][NextSave]_vars

\* C36: at most one write of the PPLNS state file is in progress at any time:
\* the periodic save task and the Exit handler never execute PPLNS::save
\* concurrently.
C36_OneSaveAtATime == Cardinality(saving) <= 1

C37_FlagImpliesSaveReturned ==
    /\ exit_lock => final_save.done
    /\ waiter = "returned" => exit_lock

C37_FlagStep ==
    /\ exit_lock => exit_lock'
    /\ (~exit_lock /\ exit_lock') => (consumer = "storing" /\ final_save.done)

\* C37: the shutdown flag is false initially, becomes true only in the Exit
\* handler and only after the final save attempt has returned, whether it
\* succeeded or failed, and is never reset; wait_for_exit returns only in a
\* state where the flag is true.
C37_FlagSetOnceAfterFinalSave ==
    /\ ~exit_lock
    /\ []C37_FlagImpliesSaveReturned
    /\ [][C37_FlagStep]_vars

\* C37 witness: the final save failed, the flag was stored all the same and
\* wait_for_exit has returned.
C37_WitnessFlagAfterFailedSave ==
    /\ exit_lock
    /\ final_save.done
    /\ ~final_save.ok
    /\ waiter = "returned"

\* The runtime runs every task that can take a step, and the RwLock queues
\* its waiters fairly, so a handler waiting for the write guard gets it.
SpecSaveFair ==
    /\ SpecSave
    /\ SF_vars(SaveHandleNewShare)
    /\ SF_vars(SaveHandleSetN)
    /\ WF_vars(ExitBegin)
    /\ WF_vars(ExitEnd)
    /\ WF_vars(ExitStore)
    /\ WF_vars(PeriodicBegin)
    /\ WF_vars(PeriodicEnd)
    /\ WF_vars(WaitForExitReturns)

ExitAccepted == \E i \in 1 .. Len(accepted) : accepted[i].type = "Exit"

\* C38: once an Exit event has been accepted on the channel, the consumer
\* eventually processes it and wait_for_exit eventually returns, whatever
\* events precede it and whether or not the final save succeeds.
C38_ExitLeadsToReturn == ExitAccepted ~> (exit_lock /\ waiter = "returned")

====
